---- MODULE Spec2Model ----
(***************************************************************************)
(* State-machine model of rust-token-server: the offline validator         *)
(* (lib-validator), the token client (lib-client) and the token server     *)
(* (server, src).  Times are UNIX seconds.  Keys are abstract identities;  *)
(* a signature verifies under a key exactly when that key produced it.     *)
(***************************************************************************)
EXTENDS Integers, Sequences, FiniteSets, TLC

(* ------------------------------------------------------------------ *)
(* Bounds of the model                                                  *)
(* ------------------------------------------------------------------ *)
\* number of distinct signing keys an issuer or an attacker may hold
NumKeys == 3
\* first value of the wall clock
Epoch == 5000
\* client: tasks that may call the client concurrently
NumTasks == 2
\* client: token responses the server sends in one run
MaxIssued == 2
\* generations of the server's blind RSA key
MaxBlindKeys == 2
\* steps of the clock in one run
MaxTicks == 5
\* server: steps of the clock in one run
MaxServerTicks == 3
\* server: refresh tokens generated in one run
MaxLogins == 1
MaxClientBlindTicks == 2
\* libcommon: steps of the clock after a token is minted
MaxAuthorizeTicks == 3
\* client: token responses in a run with concurrent refreshes
MaxRefreshIssued == 3
MaxDeletedLogins == 2
\* validator: keys an issuer's blind JWKS shows in one run
MaxGenKeys == 3
\* validator: changes of the blind JWKS the validator sees in one run
MaxChanges == 3
\* width standing for the 64 bits of u64 and i64
WordBits == 24


(* ------------------------------------------------------------------ *)
(* Program constants                                                    *)
(* ------------------------------------------------------------------ *)
JWT_DURATION_MINS == 30
NBF_BACKDATE_MINS == 10
\* TimeOptions::default() leeway, seconds
Leeway == 60
\* lib-validator constants.rs
STALE_BLIND_JWKS_TIMEOUT_SEC == 3600
\* server constants.rs
BLIND_RSA_ROTATION_PERIOD_MINS == 1440
REFRESH_TOKEN_DURATION_MINS == 43200
MAX_USERS_PER_PAGE == 20
ADMIN_USERNAME == "admin"
DEFAUTL_CLIENT_ID == "none"

None == "None"
(* Option<T>: Some(x) or NoneOpt *)
Some(x) == [some |-> TRUE, val |-> x]
NoneOpt == [some |-> FALSE]
\* a header that carries no kid
NoKid == <<"nokid", 0>>

Keys == 1..NumKeys

(* key_id(): base64url(SHA-256(public key)), a digest that names the key *)
KeyIdOf(k) == <<"kid", k>>
Kids == {KeyIdOf(k) : k \in Keys}

IssuerUrls == {"iss1", "iss2"}
ClientIds == {"c1", "c2"}

(* ------------------------------------------------------------------ *)
(* State                                                                *)
(* ------------------------------------------------------------------ *)
VARIABLES
  now,              \* wall clock, seconds
  validation_keys,  \* validator: per issuer, HashMap<KeyId, ValidationKey>
  vres,             \* validator: outcome of the last validate() call
  id_token,         \* client slot: Option<TokenBody>
  refresh_token,    \* client slot: Option<RefreshToken>
  validation_key,   \* client slot: Option<ValidationKey>
  pc,               \* client: per task, the await point a call is suspended at
  loc,              \* client: per task, the locals of the call in flight
  outcome,          \* client: per task, how its last call ended
  pre,              \* client: per task, the slots as they were when its call began
  issued,           \* client: number of token responses the server has sent
  verified,         \* client: id tokens that have passed verify_id_token
  observed,         \* client: what the last token() call returned
  ticks,            \* number of steps the clock has taken
  blind_signing_key,  \* server: the RSA key blind signatures are made with
  rotated_at,         \* server: BlindCryptoState.rotated_at
  blind_key_since,    \* server: when blind_signing_key replaced its predecessor
  blind_validation_keys,             \* validator: HashMap<KeyId, RsaPublicKey>
  blind_validation_keys_stale,       \* validator: the map before the last change
  blind_validation_keys_updated_at,  \* validator: when the map last changed
  bres,             \* validator: outcome of the last validate_anonymous_token()
  audiences,        \* server: CryptoState.audiences, Option<Audiences>
  users,            \* server: the user table
  refresh_tokens,   \* server: the refresh token table
  all_refresh,      \* server: every row ever added to the refresh token table
  next_rt,          \* server: number of refresh tokens generated
  sres,             \* server: the last request and its response
  rot,              \* server: where the key-rotation task stands
  bsign,            \* server: a blindsign request taken step by step
  blind_validation_key,  \* client slot: Option<RsaPublicKey>
  anonymous_token,  \* client slot: Option<AnonymousToken>
  blind_expires_at, \* client slot: Option<u64>
  cres,             \* client: the last call of token() or of a blind-signature method
  minted,           \* libcommon: the last authorize() call and the TokenBody it returned
  validated,        \* libcommon: the last validate() of the minted token
  bjwks,            \* server: the last response of GET /blindjwks
  bfetch,           \* validator: the answer the last refetch_blind_jwks got
  rj,               \* validator: per issuer, where its refetch_jwks stands
  rall,             \* validator: the refetch_all_jwks call in progress or last made
  vseen,            \* validator: the maps the last validate() read
  cl,               \* client: blind-signature calls in flight and the lock guards they hold
  got,              \* client: per task, the answer its last POST /tokens or /refresh got
  pr,               \* server: add_and_prune and prune_and_find calls taken step by step
  rem,              \* client: the last blind_remaining_seconds_until_expiration() call
  sb,               \* validator: a refetch_blind_jwks call taken lock by lock
  gen               \* validator: the key changes refetch_blind_jwks has seen, in order

validatorVars == <<validation_keys, vres>>
clientVars == <<id_token, refresh_token, validation_key, pc, loc, outcome, pre,
                issued, verified, observed>>
rotationVars == <<blind_signing_key, rotated_at, blind_key_since, rot, bsign>>
blindVars == <<blind_validation_keys, blind_validation_keys_stale,
               blind_validation_keys_updated_at, bres>>
serverVars == <<audiences, users, refresh_tokens, all_refresh, next_rt, sres>>
clientBlindVars == <<blind_validation_key, anonymous_token, blind_expires_at, cres>>
refetchVars == <<rj, rall, vseen>>
lateVars == <<rem, sb, gen>>
auxEarly == <<minted, validated, bjwks, bfetch, refetchVars, cl, got, pr>>
auxVars == <<auxEarly, lateVars>>
vars == <<now, ticks, validatorVars, clientVars, rotationVars, blindVars, serverVars,
          clientBlindVars, auxVars>>

(* what the actions of one component leave alone *)
notValidator == <<ticks, clientVars, rotationVars, blindVars, serverVars, clientBlindVars, auxVars>>
notClient == <<ticks, validatorVars, rotationVars, blindVars, serverVars, clientBlindVars, auxVars>>
notBlind == <<validatorVars, clientVars, serverVars, clientBlindVars, auxVars>>
notServer == <<validatorVars, clientVars, blindVars, clientBlindVars, auxVars>>

(* ------------------------------------------------------------------ *)
(* JWT validation (libcommon)                                           *)
(* ------------------------------------------------------------------ *)

(* Mutant: the signature check is skipped. *)
ValidationKeyValidate_NoSig(vk, t, opt, clock) ==
  IF clock < t.nbf - Leeway THEN "NotYetValid"
  ELSE IF clock > t.exp + Leeway THEN "Expired"
  ELSE IF opt.allowed_issuers.some /\ t.iss \notin opt.allowed_issuers.val
    THEN "UnknownIssuer"
  ELSE IF opt.allowed_audiences.some /\ t.aud \cap opt.allowed_audiences.val = {}
    THEN "UnknownAudience"
  ELSE "ok"

(* ValidationKey::validate: signature, then nbf/exp with leeway, then the
   issuer and the audience when the options name them. *)
ValidationKeyValidate(vk, t, opt, clock) ==
  IF t.signer # vk THEN "Signature"
  ELSE IF clock < t.nbf - Leeway THEN "NotYetValid"
  ELSE IF clock > t.exp + Leeway THEN "Expired"
  ELSE IF opt.allowed_issuers.some /\ t.iss \notin opt.allowed_issuers.val
    THEN "UnknownIssuer"
  ELSE IF opt.allowed_audiences.some /\ t.aud \cap opt.allowed_audiences.val = {}
    THEN "UnknownAudience"
  ELSE "ok"

(* str::split(','), on the client id strings of the model *)
SplitComma(s) == IF s = "c1,c2" THEN {"c1", "c2"} ELSE {s}

(* Audiences::new: the string is split at its commas and every part becomes
   a ClientId of the set *)
AudiencesNew(s) == SplitComma(s)

(* SigningKey::authorize: the claims and header of a freshly minted token. *)
Authorize(sk, sub, cid, iss, admin, clock) ==
  [kid |-> KeyIdOf(sk), signer |-> sk, iss |-> iss, sub |-> sub, aud |-> AudiencesNew(cid),
   iat |-> clock, nbf |-> clock - NBF_BACKDATE_MINS * 60,
   exp |-> clock + JWT_DURATION_MINS * 60, iad |-> admin]

(* ------------------------------------------------------------------ *)
(* Validator (lib-validator)                                            *)
(* ------------------------------------------------------------------ *)
Issuers == {1, 2}

(* ValidationConfigInner of each configured issuer *)
ValidationConfig(i) ==
  IF i = 1 THEN [token_issuer |-> "iss1", client_ids |-> {"c1"}]
           ELSE [token_issuer |-> "iss2", client_ids |-> {"c1", "c2"}]

(* TokenValidatorInner::new: the validation options of an issuer *)
ValidationOptions(i) ==
  [allowed_issuers |-> Some({ValidationConfig(i).token_issuer}),
   allowed_audiences |-> Some(ValidationConfig(i).client_ids)]

(* a /jwks response: whether the fetch succeeded, the keys it lists, and
   whether it also lists a JWK that does not parse *)
JwksResponses ==
  {[fetched |-> TRUE, keys |-> S, unparsable |-> b] : S \in SUBSET Keys, b \in BOOLEAN}
    \cup {[fetched |-> FALSE, keys |-> {}, unparsable |-> FALSE]}

(* the map refetch_jwks builds: each parsed key indexed by its own key id *)
KeyMapOf(S) == [kid \in {KeyIdOf(k) : k \in S} |-> CHOOSE k \in S : KeyIdOf(k) = kid]

(* tokens a caller may present: any header kid, any signer, any claims *)
PresentedTokens ==
  {[kid |-> kid, signer |-> sk, iss |-> iss, sub |-> "s1", aud |-> {cid},
    iat |-> iat, nbf |-> iat - NBF_BACKDATE_MINS * 60,
    exp |-> iat + JWT_DURATION_MINS * 60, iad |-> FALSE] :
     kid \in Kids \cup {NoKid}, sk \in Keys, iss \in IssuerUrls, cid \in ClientIds,
     iat \in {Epoch, Epoch - JWT_DURATION_MINS * 60 - Leeway - 1,
              Epoch + NBF_BACKDATE_MINS * 60 + Leeway + 1}}

(* Mutant: every key of the issuer is tried, whatever kid the header names. *)
ValidateIssuer_AnyKey(i, t) ==
  IF \E kid \in DOMAIN validation_keys[i] :
       ValidationKeyValidate(validation_keys[i][kid], t, ValidationOptions(i), now) = "ok"
    THEN "ok"
    ELSE IF t.kid \in DOMAIN validation_keys[i] THEN "Signature" ELSE None

(* one issuer's future in validate(): None when the kid is not in its map *)
ValidateIssuer(i, t) ==
  IF t.kid \notin DOMAIN validation_keys[i]
    THEN None
    ELSE ValidationKeyValidate(validation_keys[i][t.kid], t, ValidationOptions(i), now)

(* TokenValidator::validate *)
ValidateResult(t) ==
  IF t.kid = NoKid
    THEN [kind |-> "NoKeyId", token |-> t, accepted |-> {}]
    ELSE LET key_matched == {i \in Issuers : ValidateIssuer(i, t) # None}
             results == {i \in key_matched : ValidateIssuer(i, t) = "ok"}
         IN IF key_matched = {} THEN [kind |-> "ValidationFailed", token |-> t, accepted |-> {}]
            ELSE IF results = {} THEN [kind |-> "ValidationFailed", token |-> t, accepted |-> {}]
            ELSE [kind |-> "Ok", token |-> t, accepted |-> results]

NoCall == [kind |-> "NoCall"]

Validate(t) ==
  /\ vres = NoCall
  /\ vres' = ValidateResult(t)
  /\ UNCHANGED <<now, validation_keys>>

(* TokenValidatorInner::refetch_jwks for issuer i on response resp *)
RefetchJwks(i, resp) ==
  /\ IF ~resp.fetched \/ (resp.keys = {} /\ ~resp.unparsable) \/ resp.unparsable
       THEN UNCHANGED validation_keys
       ELSE validation_keys' = [validation_keys EXCEPT ![i] = KeyMapOf(resp.keys)]
  /\ vres' = NoCall
  /\ UNCHANGED now

(* Ok(jwks_res) of refetch_jwks_inner: the answer came and lists a key *)
JwksFetched(resp) == resp.fetched /\ (resp.keys # {} \/ resp.unparsable)

(* refetch_jwks returns Ok: every listed key parses as well *)
JwksAccepted(resp) == JwksFetched(resp) /\ ~resp.unparsable

(* no refetch_jwks of the issuer is running *)
RefetchIdle == [pc |-> "idle"]

(* Mutant: the call gives up as soon as one issuer's fetch fails. *)
RefetchAllJwksStart_AllOrNothing(resps) ==
  /\ \A i \in Issuers : rj[i].pc \in {"idle", "done"}
  /\ rall' = [called |-> TRUE, pre |-> validation_keys, resps |-> resps]
  /\ rj' = [i \in Issuers |->
             IF \A j \in Issuers : JwksFetched(resps[j])
               THEN [pc |-> "building", resp |-> resps[i], built |-> {}]
               ELSE [pc |-> "done"]]
  /\ vres' = NoCall
  /\ vseen' = NoneOpt
  /\ UNCHANGED <<now, validation_keys>>

(* refetch_all_jwks: the refetch_jwks of every issuer is started and has
   fetched its answer; one that got no usable answer has returned its error *)
RefetchAllJwksStart(resps) ==
  /\ \A i \in Issuers : rj[i].pc \in {"idle", "done"}
  /\ rall' = [called |-> TRUE, pre |-> validation_keys, resps |-> resps]
  /\ rj' = [i \in Issuers |->
             IF JwksFetched(resps[i])
               THEN [pc |-> "building", resp |-> resps[i], built |-> {}]
               ELSE [pc |-> "done"]]
  /\ vres' = NoCall
  /\ vseen' = NoneOpt
  /\ UNCHANGED <<now, validation_keys>>

(* Mutant: the keys are inserted into the shared map as they are parsed. *)
RefetchJwksBuild_InPlace(i) ==
  /\ rj[i].pc = "building"
  /\ \/ \E k \in rj[i].resp.keys \ rj[i].built :
          /\ rj' = [rj EXCEPT ![i].built = @ \cup {k}]
          /\ validation_keys' = [validation_keys EXCEPT ![i] = KeyMapOf(rj[i].built \cup {k})]
     \/ /\ rj[i].resp.unparsable
        /\ rj' = [rj EXCEPT ![i] = [pc |-> "done"]]
        /\ UNCHANGED validation_keys
     \/ /\ rj[i].built = rj[i].resp.keys
        /\ ~rj[i].resp.unparsable
        /\ rj' = [rj EXCEPT ![i].pc = "built"]
        /\ UNCHANGED validation_keys
  /\ UNCHANGED <<now, vres, rall, vseen>>

(* refetch_jwks, lines 259-264: the listed keys are parsed one by one into
   the local vk_map; an entry that does not parse ends the call with its
   error; when all are in, the call goes for the write lock *)
RefetchJwksBuild(i) ==
  /\ rj[i].pc = "building"
  /\ \/ \E k \in rj[i].resp.keys \ rj[i].built :
          rj' = [rj EXCEPT ![i].built = @ \cup {k}]
     \/ /\ rj[i].resp.unparsable
        /\ rj' = [rj EXCEPT ![i] = [pc |-> "done"]]
     \/ /\ rj[i].built = rj[i].resp.keys
        /\ ~rj[i].resp.unparsable
        /\ rj' = [rj EXCEPT ![i].pc = "built"]
  /\ UNCHANGED <<now, vres, validation_keys, rall, vseen>>

(* refetch_jwks, lines 266-268: the map is replaced under the write lock *)
RefetchJwksSwap(i) ==
  /\ rj[i].pc = "built"
  /\ validation_keys' = [validation_keys EXCEPT ![i] = KeyMapOf(rj[i].built)]
  /\ rj' = [rj EXCEPT ![i] = [pc |-> "done"]]
  /\ UNCHANGED <<now, vres, rall, vseen>>

(* validate, with a record of the maps its futures read under the read
   locks and of where the refetches stood *)
ValidateObserved(t) ==
  /\ Validate(t)
  /\ vseen' = Some([maps |-> validation_keys, rj |-> rj])
  /\ UNCHANGED <<rj, rall>>

NoMint == [called |-> FALSE]
NoValidate == [called |-> FALSE]

InitAux ==
  /\ minted = NoMint
  /\ validated = NoValidate
  /\ bjwks = NoneOpt
  /\ bfetch = NoneOpt
  /\ rj = [i \in Issuers |-> RefetchIdle]
  /\ rall = [called |-> FALSE]
  /\ vseen = NoneOpt
  /\ got = [t \in 1..NumTasks |-> NoneOpt]
  /\ pr = [add |-> [pc |-> "idle"], prune |-> [pc |-> "idle", current |-> Epoch, deleted |-> {}],
          ins |-> {}]
  /\ rem = [called |-> FALSE]
  /\ sb = [pc |-> "idle", old |-> << >>]
  /\ gen = << >>
  /\ cl = [req |-> "idle", upd |-> "idle", held |-> {}, key |-> NoneOpt, updated |-> "none"]

InitValidator ==
  /\ validation_keys = [i \in Issuers |-> KeyMapOf({})]
  /\ vres = NoCall

(* ------------------------------------------------------------------ *)
(* Token client (lib-client)                                            *)
(* ------------------------------------------------------------------ *)
Tasks == 1..NumTasks

(* AuthenticationConfig of the client *)
ClientConfig == [token_api |-> "iss1", client_id |-> "c1"]

(* keys the token server of the client publishes, and the one it signs with *)
ServerKeys == {1, 2}
SigningKeys == {1}

LocInit == [op |-> "none", res |-> NoneOpt, key_id |-> NoKid, vk |-> NoneOpt, tok |-> NoneOpt]

Slots == [id_token |-> id_token, refresh_token |-> refresh_token,
          validation_key |-> validation_key]

ClientNoCall == [op |-> "none"]

(* how a refresh() can end in an error *)
RefreshErrorOutcomes ==
  {"refresh" \o e : e \in {"_Err_Http", "_Err_NoIdToken", "_Err_NoKeyIdInIdToken",
                            "_Err_NoJwkMatched", "_Err_FailedToParseJwk",
                            "_Err_NoValidationKey", "_Err_InvalidIdToken",
                            "_Err_NoRefreshToken"}}

(* TokenClient::new *)
InitClient ==
  /\ id_token = NoneOpt
  /\ refresh_token = NoneOpt
  /\ validation_key = NoneOpt
  /\ pc = [t \in Tasks |-> "idle"]
  /\ loc = [t \in Tasks |-> LocInit]
  /\ outcome = [t \in Tasks |-> "none"]
  /\ pre = [t \in Tasks |-> [id_token |-> NoneOpt, refresh_token |-> NoneOpt,
                             validation_key |-> NoneOpt]]
  /\ issued = 0
  /\ verified = {}
  /\ observed = NoneOpt
  /\ blind_validation_key = NoneOpt
  /\ anonymous_token = NoneOpt
  /\ blind_expires_at = NoneOpt
  /\ cres = ClientNoCall

(* a TokenBody the server answers with: the n-th issued id token, signed by
   sk for audience aud and the subscriber id of the admin user, with or
   without a refresh token *)
TokenBody(n, sk, aud, with_refresh) ==
  [id |-> [serial |-> n] @@ Authorize(sk, "sub_admin", aud, ClientConfig.token_api, TRUE, now),
   refresh |-> IF with_refresh THEN Some(<<"rt", n>>) ELSE NoneOpt]

(* answers to POST /tokens and POST /refresh: an error status, or a body *)
TokenResponses(with_refresh) ==
  {NoneOpt} \cup
  {Some(TokenBody(issued + 1, sk, aud, r)) :
     sk \in SigningKeys, aud \in ClientIds, r \in with_refresh}

(* answers to GET /jwks: a failed fetch, or at most one JWK, which names a
   kid and holds a key or does not parse *)
ClientJwksResponses ==
  {[fetched |-> FALSE, keys |-> {}]} \cup {[fetched |-> TRUE, keys |-> {}]} \cup
  {[fetched |-> TRUE, keys |-> {[kid |-> KeyIdOf(k), key |-> k, parses |-> p]}] :
     k \in ServerKeys, p \in BOOLEAN}

(* the call of task t ends with result r *)
Return(t, r) ==
  /\ pc' = [pc EXCEPT ![t] = "idle"]
  /\ loc' = [loc EXCEPT ![t] = LocInit]
  /\ outcome' = [outcome EXCEPT ![t] = r]

Goto(t, label, l) ==
  /\ pc' = [pc EXCEPT ![t] = label]
  /\ loc' = [loc EXCEPT ![t] = l]
  /\ UNCHANGED outcome

(* login(): the call begins *)
StartLogin(t) ==
  /\ pc[t] = "idle"
  /\ pc' = [pc EXCEPT ![t] = "login_post"]
  /\ loc' = [loc EXCEPT ![t] = [LocInit EXCEPT !.op = "login"]]
  /\ outcome' = [outcome EXCEPT ![t] = "login_running"]
  /\ pre' = [pre EXCEPT ![t] = Slots]
  /\ UNCHANGED <<now, id_token, refresh_token, validation_key, issued, verified, observed>>

(* login(): POST /tokens answers; at most max answers carry a token *)
LoginPostUpTo(t, resp, max) ==
  /\ pc[t] = "login_post"
  /\ IF resp.some
       THEN /\ issued < max
            /\ issued' = issued + 1
            /\ Goto(t, "store_refresh", [loc[t] EXCEPT !.res = resp])
       ELSE /\ Return(t, "login_Err_Http")
            /\ UNCHANGED issued
  /\ UNCHANGED <<now, id_token, refresh_token, validation_key, pre, verified, observed>>

LoginPost(t, resp) == LoginPostUpTo(t, resp, MaxIssued)

(* refresh(): the call begins; it needs a stored refresh token *)
StartRefresh(t) ==
  /\ pc[t] = "idle"
  /\ pre' = [pre EXCEPT ![t] = Slots]
  /\ IF refresh_token.some
       THEN /\ pc' = [pc EXCEPT ![t] = "refresh_post"]
            /\ loc' = [loc EXCEPT ![t] = [LocInit EXCEPT !.op = "refresh"]]
            /\ outcome' = [outcome EXCEPT ![t] = "refresh_running"]
       ELSE /\ outcome' = [outcome EXCEPT ![t] = "refresh_Err_NoRefreshToken"]
            /\ UNCHANGED <<pc, loc>>
  /\ UNCHANGED <<now, id_token, refresh_token, validation_key, issued, verified, observed>>

(* refresh(): POST /refresh answers; at most max answers carry a token *)
RefreshPostUpTo(t, resp, max) ==
  /\ pc[t] = "refresh_post"
  /\ IF resp.some
       THEN /\ issued < max
            /\ issued' = issued + 1
            /\ Goto(t, "store_refresh", [loc[t] EXCEPT !.res = resp])
       ELSE /\ Return(t, "refresh_Err_Http")
            /\ UNCHANGED issued
  /\ UNCHANGED <<now, id_token, refresh_token, validation_key, pre, verified, observed>>

RefreshPost(t, resp) == RefreshPostUpTo(t, resp, MaxIssued)

(* Mutant: the refresh_token slot takes the refresh field of the response,
   present or not. *)
StoreRefresh_Always(t) ==
  /\ pc[t] = "store_refresh"
  /\ refresh_token' = loc[t].res.val.refresh
  /\ Goto(t, "store_id", loc[t])
  /\ UNCHANGED <<now, id_token, validation_key, pre, issued, verified, observed>>

(* login() and refresh(): the refresh token of the response, when there is
   one, replaces the refresh_token slot *)
StoreRefresh(t) ==
  /\ pc[t] = "store_refresh"
  /\ IF loc[t].res.val.refresh.some
       THEN refresh_token' = loc[t].res.val.refresh
       ELSE UNCHANGED refresh_token
  /\ Goto(t, "store_id", loc[t])
  /\ UNCHANGED <<now, id_token, validation_key, pre, issued, verified, observed>>

(* Mutant: the id token of the response is stored next to the refresh token
   the slot held. *)
StoreId_KeepsRefreshField(t) ==
  /\ pc[t] = "store_id"
  /\ id_token' = Some([loc[t].res.val EXCEPT
                         !.refresh = IF id_token.some THEN id_token.val.refresh ELSE @])
  /\ Goto(t, "uvk_read", loc[t])
  /\ UNCHANGED <<now, refresh_token, validation_key, pre, issued, verified, observed>>

(* login() and refresh(): the TokenBody of the response replaces the
   id_token slot *)
StoreId(t) ==
  /\ pc[t] = "store_id"
  /\ id_token' = Some(loc[t].res.val)
  /\ Goto(t, "uvk_read", loc[t])
  /\ UNCHANGED <<now, refresh_token, validation_key, pre, issued, verified, observed>>

(* update_validation_key(): the kid of the stored id token *)
UvkRead(t) ==
  /\ pc[t] = "uvk_read"
  /\ IF ~id_token.some
       THEN Return(t, loc[t].op \o "_Err_NoIdToken")
       ELSE IF id_token.val.id.kid = NoKid
         THEN Return(t, loc[t].op \o "_Err_NoKeyIdInIdToken")
         ELSE Goto(t, "uvk_fetch", [loc[t] EXCEPT !.key_id = id_token.val.id.kid])
  /\ UNCHANGED <<now, id_token, refresh_token, validation_key, pre, issued, verified, observed>>

(* update_validation_key(): GET /jwks answers; the JWK naming the kid is
   selected and parsed *)
UvkFetch(t, resp) ==
  /\ pc[t] = "uvk_fetch"
  /\ LET matched == {j \in resp.keys : j.kid = loc[t].key_id}
     IN IF ~resp.fetched
          THEN Return(t, loc[t].op \o "_Err_Http")
          ELSE IF matched = {}
            THEN Return(t, loc[t].op \o "_Err_NoJwkMatched")
            ELSE LET jwk == CHOOSE j \in matched : TRUE
                 IN IF ~jwk.parses
                      THEN Return(t, loc[t].op \o "_Err_FailedToParseJwk")
                      ELSE Goto(t, "uvk_store", [loc[t] EXCEPT !.vk = Some(jwk.key)])
  /\ UNCHANGED <<now, id_token, refresh_token, validation_key, pre, issued, verified, observed>>

(* update_validation_key(): the parsed key replaces the validation_key slot *)
UvkStore(t) ==
  /\ pc[t] = "uvk_store"
  /\ validation_key' = loc[t].vk
  /\ Goto(t, "verify_read", loc[t])
  /\ UNCHANGED <<now, id_token, refresh_token, pre, issued, verified, observed>>

(* verify_id_token(): the stored id token is read *)
VerifyRead(t) ==
  /\ pc[t] = "verify_read"
  /\ IF ~id_token.some
       THEN Return(t, loc[t].op \o "_Err_NoIdToken")
       ELSE Goto(t, "verify_check", [loc[t] EXCEPT !.tok = id_token])
  /\ UNCHANGED <<now, id_token, refresh_token, validation_key, pre, issued, verified, observed>>

(* TokenBody::verify_id_token with the client id and the token api *)
VerifyIdToken(tok, vk) ==
  ValidationKeyValidate(vk, tok.id,
    [allowed_issuers |-> Some({ClientConfig.token_api}),
     allowed_audiences |-> Some({ClientConfig.client_id})], now)

(* verify_id_token(): the stored validation key is read and the token is
   verified with it; the call returns *)
VerifyCheck(t) ==
  /\ pc[t] = "verify_check"
  /\ IF ~validation_key.some
       THEN /\ Return(t, loc[t].op \o "_Err_NoValidationKey")
            /\ UNCHANGED verified
       ELSE IF VerifyIdToken(loc[t].tok.val, validation_key.val) = "ok"
         THEN /\ Return(t, loc[t].op \o "_Ok")
              /\ verified' = verified \cup {loc[t].tok.val.id}
         ELSE /\ Return(t, loc[t].op \o "_Err_InvalidIdToken")
              /\ UNCHANGED verified
  /\ UNCHANGED <<now, id_token, refresh_token, validation_key, pre, issued, observed>>

(* the future of a call in flight is dropped at an await point *)
Cancel(t) ==
  /\ pc[t] # "idle"
  /\ Return(t, loc[t].op \o "_Cancelled")
  /\ UNCHANGED <<now, id_token, refresh_token, validation_key, pre, issued, verified, observed>>

(* token(): the stored TokenBody *)
TokenCall ==
  /\ id_token.some
  /\ observed # id_token
  /\ observed' = id_token
  /\ UNCHANGED <<now, id_token, refresh_token, validation_key, pc, loc, outcome, pre,
                 issued, verified>>

AllIdle == \A t \in Tasks : pc[t] = "idle"

ClientStep(t) ==
  \/ \E resp \in TokenResponses({TRUE}) : LoginPost(t, resp)
  \/ \E resp \in TokenResponses(BOOLEAN) : RefreshPost(t, resp)
  \/ StoreRefresh(t)
  \/ StoreId(t)
  \/ UvkRead(t)
  \/ \E resp \in ClientJwksResponses : UvkFetch(t, resp)
  \/ UvkStore(t)
  \/ VerifyRead(t)
  \/ VerifyCheck(t)

(* ------------------------------------------------------------------ *)
(* Blind RSA key of the server and its rotation (server state.rs)       *)
(* ------------------------------------------------------------------ *)
BlindKeys == 1..MaxBlindKeys

(* steps the clock takes *)
TickDeltas == {1, STALE_BLIND_JWKS_TIMEOUT_SEC - 1, BLIND_RSA_ROTATION_PERIOD_MINS * 60}

(* BlindCryptoState as built at start-up *)
RotationPeriod == BLIND_RSA_ROTATION_PERIOD_MINS * 60

BlindSignIdle == [pc |-> "idle"]

InitRotation ==
  /\ blind_signing_key = 1
  /\ rotated_at = Epoch
  /\ blind_key_since = Epoch
  /\ rot = [pc |-> "sleep", until |-> Epoch + RotationPeriod, last |-> "none",
            shutdown |-> FALSE, wlock |-> FALSE]
  /\ bsign = BlindSignIdle

(* one round of the rotation task: after sleeping rotation_period it stores
   rotated_at, then generates a key and installs it; when the generation
   fails the old key stays *)
RotateBlindKey(generated) ==
  /\ now >= rotated_at + BLIND_RSA_ROTATION_PERIOD_MINS * 60
  /\ rotated_at' = now
  /\ IF generated
       THEN /\ blind_signing_key < MaxBlindKeys
            /\ blind_signing_key' = blind_signing_key + 1
            /\ blind_key_since' = now
       ELSE UNCHANGED <<blind_signing_key, blind_key_since>>
  /\ UNCHANGED <<rot, bsign>>

(* Mutant: the write lock is taken before the key is generated. *)
RotationStore_LockFirst ==
  /\ rot.pc = "sleep"
  /\ now >= rot.until
  /\ rotated_at' = now
  /\ rot' = [rot EXCEPT !.pc = "stored", !.wlock = TRUE]
  /\ UNCHANGED <<blind_signing_key, blind_key_since, bsign>>

(* the rotation task wakes up after sleep(rotation_period) and stores the
   current time in rotated_at; the key generation starts, no lock held *)
RotationStore ==
  /\ rot.pc = "sleep"
  /\ now >= rot.until
  /\ rotated_at' = now
  /\ rot' = [rot EXCEPT !.pc = "stored"]
  /\ UNCHANGED <<blind_signing_key, blind_key_since, bsign>>

(* the loop is back at sleep(rotation_period).await: the task sleeps, or is
   dropped there when the runtime has been shut down *)
RotationSleep(last) ==
  [rot EXCEPT !.pc = IF rot.shutdown THEN "cancelled" ELSE "sleep",
              !.until = now + RotationPeriod, !.last = last, !.wlock = FALSE]

(* Mutant: a failed key generation ends the task. *)
RotationGenerate_FailureEndsTask(generated) ==
  /\ rot.pc = "stored"
  /\ IF generated
       THEN /\ blind_signing_key < MaxBlindKeys
            /\ rot' = [rot EXCEPT !.pc = "locked", !.wlock = TRUE]
       ELSE rot' = [rot EXCEPT !.pc = "cancelled", !.last = "keygen_failed"]
  /\ UNCHANGED <<blind_signing_key, rotated_at, blind_key_since, bsign>>

(* RsaPrivateKey::new returns: on failure the loop continues with the next
   sleep; on success the task takes the write lock on the signing key *)
RotationGenerate(generated) ==
  /\ rot.pc = "stored"
  /\ IF generated
       THEN /\ blind_signing_key < MaxBlindKeys
            /\ rot' = [rot EXCEPT !.pc = "locked", !.wlock = TRUE]
       ELSE rot' = RotationSleep("keygen_failed")
  /\ UNCHANGED <<blind_signing_key, rotated_at, blind_key_since, bsign>>

(* under the write lock the new key replaces the old one; the lock is
   released at the end of the loop body and the task sleeps again *)
RotationInstall ==
  /\ rot.pc = "locked"
  /\ blind_signing_key' = blind_signing_key + 1
  /\ blind_key_since' = now
  /\ rot' = RotationSleep("rotated")
  /\ UNCHANGED <<rotated_at, bsign>>

(* Mutant: a task that was dropped in its sleep wakes up all the same. *)
RotationShutdown_SleepGoesOn ==
  /\ ~rot.shutdown
  /\ rot' = [rot EXCEPT !.shutdown = TRUE]
  /\ UNCHANGED <<blind_signing_key, rotated_at, blind_key_since, bsign>>

(* the runtime is shut down: a task suspended in its sleep is dropped there,
   a task that is running goes on to its next await *)
RotationShutdown ==
  /\ ~rot.shutdown
  /\ rot' = [rot EXCEPT !.shutdown = TRUE,
                        !.pc = IF rot.pc = "sleep" THEN "cancelled" ELSE rot.pc]
  /\ UNCHANGED <<blind_signing_key, rotated_at, blind_key_since, bsign>>

(* a reader of the signing key waits while the writer holds the lock *)
SigningKeyReadable == ~rot.wlock

(* GET /blindjwks: the public half of the current signing key only *)
BlindJwks == [fetched |-> TRUE, keys |-> {blind_signing_key}, unparsable |-> FALSE]

(* time passes *)
Tick(d) ==
  /\ ticks' = ticks + 1
  /\ now' = now + d

(* ------------------------------------------------------------------ *)
(* Anonymous token validator (lib-validator)                            *)
(* ------------------------------------------------------------------ *)
BlindKeyIdOf(k) == <<"bkid", k>>

BlindKeyMapOf(S) ==
  [kid \in {BlindKeyIdOf(k) : k \in S} |-> CHOOSE k \in S : BlindKeyIdOf(k) = kid]

(* anonymous tokens presented: the signature names a key id and was made
   with some key *)
AnonymousTokens == [key_id : {BlindKeyIdOf(k) : k \in BlindKeys}, signer : BlindKeys]

(* RsaPublicKey::verify *)
BlindVerify(bvk, tok) == BlindKeyIdOf(bvk) = tok.key_id /\ tok.signer = bvk

(* Mutant: the stale key is still tried when exactly stale_alive has elapsed. *)
CanTryStale_Inclusive(updated_at, clock) ==
  clock - updated_at <= STALE_BLIND_JWKS_TIMEOUT_SEC

(* updated_at.elapsed() < stale_alive *)
CanTryStale(updated_at, clock) ==
  clock - updated_at < STALE_BLIND_JWKS_TIMEOUT_SEC

(* TokenValidatorInner::new, blind part *)
InitBlind ==
  /\ blind_validation_keys = BlindKeyMapOf({})
  /\ blind_validation_keys_stale = BlindKeyMapOf({})
  /\ blind_validation_keys_updated_at = Epoch
  /\ bres = NoCall

(* answers the validator gets from GET /blindjwks: no answer, an empty key
   list, the issuer's key, or the issuer's key next to an entry that
   RsaPublicKey::from_jwk or key_id() rejects *)
BlindJwksResponses ==
  {[fetched |-> FALSE, keys |-> {}, unparsable |-> FALSE],
   [fetched |-> TRUE, keys |-> {}, unparsable |-> FALSE],
   BlindJwks,
   [BlindJwks EXCEPT !.unparsable = TRUE]}

(* refetch_jwks_inner and the collect of refetch_blind_jwks return Ok *)
BlindJwksFetched(resp) == resp.fetched /\ resp.keys # {} /\ ~resp.unparsable

(* Mutant: the stale map collects every key that was ever current. *)
RefetchBlindJwks_KeepsAllStale(resp) ==
  /\ IF ~BlindJwksFetched(resp) \/ blind_validation_keys = BlindKeyMapOf(resp.keys)
       THEN UNCHANGED <<blind_validation_keys, blind_validation_keys_stale,
                        blind_validation_keys_updated_at>>
       ELSE /\ blind_validation_keys_stale' =
                 blind_validation_keys @@ blind_validation_keys_stale
            /\ blind_validation_keys' = BlindKeyMapOf(resp.keys)
            /\ blind_validation_keys_updated_at' = now
  /\ bres' = NoCall

(* Mutant: the maps are rotated without comparing the fetched map with the
   current one. *)
RefetchBlindJwks_AlwaysRotate(resp) ==
  /\ IF ~BlindJwksFetched(resp)
       THEN UNCHANGED <<blind_validation_keys, blind_validation_keys_stale,
                        blind_validation_keys_updated_at>>
       ELSE /\ blind_validation_keys_stale' = blind_validation_keys
            /\ blind_validation_keys' = BlindKeyMapOf(resp.keys)
            /\ blind_validation_keys_updated_at' = now
  /\ bres' = NoCall

(* Mutant: an empty key list empties the current map. *)
RefetchBlindJwks_EmptyInstalled(resp) ==
  /\ IF ~resp.fetched \/ resp.unparsable
          \/ blind_validation_keys = BlindKeyMapOf(resp.keys)
       THEN UNCHANGED <<blind_validation_keys, blind_validation_keys_stale,
                        blind_validation_keys_updated_at>>
       ELSE /\ blind_validation_keys_stale' = blind_validation_keys
            /\ blind_validation_keys' = BlindKeyMapOf(resp.keys)
            /\ blind_validation_keys_updated_at' = now
  /\ bres' = NoCall

(* refetch_blind_jwks *)
RefetchBlindJwks(resp) ==
  /\ IF ~BlindJwksFetched(resp) \/ blind_validation_keys = BlindKeyMapOf(resp.keys)
       THEN UNCHANGED <<blind_validation_keys, blind_validation_keys_stale,
                        blind_validation_keys_updated_at>>
       ELSE /\ blind_validation_keys_stale' = blind_validation_keys
            /\ blind_validation_keys' = BlindKeyMapOf(resp.keys)
            /\ blind_validation_keys_updated_at' = now
  /\ bres' = NoCall

(* refetch_blind_jwks, with a record of the answer it got, of the branch it
   took (lines 294-298 or 299-309) and of the keys of the last answer that
   lines 284-291 accepted *)
RefetchBlindJwksObserved(resp) ==
  /\ RefetchBlindJwks(resp)
  /\ bfetch' = Some([resp |-> resp,
                     updated |-> blind_validation_keys' # blind_validation_keys,
                     good |-> IF BlindJwksFetched(resp) THEN resp.keys
                              ELSE IF bfetch.some THEN bfetch.val.good ELSE {}])

(* validate_anonymous_token *)
ValidateAnonymousResult(tok) ==
  LET res == IF tok.key_id \in DOMAIN blind_validation_keys
               THEN [via |-> "current", ok |-> BlindVerify(blind_validation_keys[tok.key_id], tok)]
             ELSE IF ~CanTryStale(blind_validation_keys_updated_at, now)
               THEN [via |-> "none", ok |-> FALSE]
             ELSE IF tok.key_id \in DOMAIN blind_validation_keys_stale
               THEN [via |-> "stale", ok |-> BlindVerify(blind_validation_keys_stale[tok.key_id], tok)]
             ELSE [via |-> "none", ok |-> FALSE]
  IN [kind |-> IF res.ok THEN "Ok" ELSE "BlindValidationFailed",
      token |-> tok, via |-> res.via]

ValidateAnonymousToken(tok) ==
  /\ bres = NoCall
  /\ bres' = ValidateAnonymousResult(tok)
  /\ UNCHANGED <<blind_validation_keys, blind_validation_keys_stale,
                 blind_validation_keys_updated_at>>

(* ------------------------------------------------------------------ *)
(* Token server: state                                                  *)
(* ------------------------------------------------------------------ *)
ServerKey == 1
AttackerKey == CHOOSE k \in Keys : k # ServerKey
ServerIssuer == "iss1"

Usernames == {ADMIN_USERNAME, "alice", "bob"}
Passwords == {"pw", "bad"}
SubscriberIdOf(name) == "sub_" \o name

(* User::new for the users of the database the server starts with, whose
   subscriber ids are named after them *)
NewUser(name, password) ==
  [username |-> name, subscriber_id |-> SubscriberIdOf(name),
   encoded_hash |-> password, is_admin |-> (name = ADMIN_USERNAME)]

(* client ids a request may carry, or none *)
ClientOpts == {NoneOpt} \cup {Some(c) : c \in {"c1", "c2", "c3"}}

(* the --client-ids option: no policy, or a list of allowed client ids *)
AudiencesConfigs == {NoneOpt, Some({"c1", "c2"})}

RefreshValues == {<<"rt", n>> : n \in 0..MaxLogins}

ServerNoCall == [op |-> "none"]

(* find_user by username / by subscriber id: the set holds at most one row *)
FindUserByName(U, name) == {u \in U : u.username = name}
FindUserBySub(U, sub) == {u \in U : u.subscriber_id = sub}

(* the row of the login the admin made just before the server came up *)
AdminSession(aud) ==
  [subscriber_id |-> SubscriberIdOf(ADMIN_USERNAME),
   client_id |-> IF aud.some THEN "c1" ELSE DEFAUTL_CLIENT_ID,
   refresh_token |-> <<"rt", 0>>,
   expires |-> Epoch + REFRESH_TOKEN_DURATION_MINS * 60]

(* the tables after setup_sqlite on the database of an earlier run: the admin
   user, one other user, and the admin's live refresh token *)
InitServer ==
  /\ audiences \in AudiencesConfigs
  /\ users = {NewUser(ADMIN_USERNAME, "pw"), NewUser("alice", "pw")}
  /\ refresh_tokens = {AdminSession(audiences)}
  /\ all_refresh = {AdminSession(audiences)}
  /\ next_rt = 0
  /\ sres = ServerNoCall

(* Mutant: any password is taken. *)
VerifyPassword_Any(user, password) == TRUE

(* verify_argon2(password, user.encoded_hash) *)
VerifyPassword(user, password) == user.encoded_hash = password

(* Mutant: the id token is minted for the default audience. *)
GenerateToken_DefaultAud(user, client_id) ==
  Authorize(ServerKey, user.subscriber_id, DEFAUTL_CLIENT_ID, ServerIssuer, user.is_admin, now)

(* CryptoState::generate_token, the id token part *)
GenerateToken(user, client_id) ==
  Authorize(ServerKey, user.subscriber_id, client_id, ServerIssuer, user.is_admin, now)

(* CryptoState::verify_token *)
VerifyToken(t) ==
  ValidationKeyValidate(ServerKey, t,
    [allowed_issuers |-> Some({ServerIssuer}),
     allowed_audiences |-> IF audiences.some THEN audiences ELSE NoneOpt], now)

(* claims.custom.get(name): the custom claims are iss, sub, aud and iad *)
CustomGet(t, name) ==
  CASE name = "iss" -> Some(t.iss)
    [] name = "sub" -> Some(t.sub)
    [] name = "aud" -> Some(t.aud)
    [] name = "iad" -> Some(t.iad)
    [] OTHER -> NoneOpt

(* Mutant: a row that expires this very second is still found. *)
FindRefreshToken_Inclusive(rows, value, client_id, clock) ==
  {r \in rows : r.client_id = client_id /\ r.refresh_token = value /\ r.expires >= clock}

(* Mutant: a row is found only until the second before it expires. *)
FindRefreshToken_Early(rows, value, client_id, clock) ==
  {r \in rows : r.client_id = client_id /\ r.refresh_token = value /\ r.expires > clock + 1}

(* Mutant: the client id is left out of the lookup. *)
FindRefreshToken_AnyClient(rows, value, client_id, clock) ==
  {r \in rows : r.refresh_token = value /\ r.expires > clock}

(* find_refresh_token: where client_id=.. and refresh_token=.. and expires>now *)
FindRefreshToken(rows, value, client_id, clock) ==
  {r \in rows : r.client_id = client_id /\ r.refresh_token = value /\ r.expires > clock}

(* prune_expired: delete where expires < now *)
PruneExpired(rows, clock) == {r \in rows : ~(r.expires < clock)}

(* Mutant: the row expires the second it is made. *)
RefreshTokenInfo_ExpiresNow(tok, value) ==
  [subscriber_id |-> tok.sub, client_id |-> CHOOSE c \in tok.aud : TRUE,
   refresh_token |-> value, expires |-> now]

(* RefreshToken::try_from(&token): the row recorded for a token *)
RefreshTokenInfo(tok, value) ==
  [subscriber_id |-> tok.sub, client_id |-> CHOOSE c \in tok.aud : TRUE,
   refresh_token |-> value, expires |-> now + REFRESH_TOKEN_DURATION_MINS * 60]

(* a request and its response *)
Response(op, kind, req, out) ==
  [op |-> op, kind |-> kind, at |-> now, users_before |-> users,
   auth |-> req.auth, client |-> req.client, bearer |-> req.bearer,
   rt |-> req.rt, target |-> req.target, password |-> req.password,
   id |-> out.id, refresh |-> out.refresh, list |-> out.list, sig |-> out.sig,
   expires_at |-> out.expires_at]

NoReq == [auth |-> NoneOpt, client |-> NoneOpt, bearer |-> NoneOpt, rt |-> NoneOpt,
          target |-> NoneOpt, password |-> NoneOpt]
NoOut == [id |-> NoneOpt, refresh |-> NoneOpt, list |-> NoneOpt, sig |-> NoneOpt,
          expires_at |-> NoneOpt]

(* a handler answers an error: nothing but the response changes *)
Fail(op, kind, req) ==
  /\ sres' = Response(op, kind, req, NoOut)
  /\ UNCHANGED <<audiences, users, refresh_tokens, all_refresh, next_rt>>

(* ------------------------------------------------------------------ *)
(* Token server: POST /tokens and POST /refresh                         *)
(* ------------------------------------------------------------------ *)
(* get_tokens, with the number of logins the model follows *)
GetTokensUpTo(username, password, client, max) ==
  LET req == [NoReq EXCEPT !.auth = Some([username |-> username, password |-> password]),
                           !.client = client]
      found == FindUserByName(users, username)
  IN IF found = {} THEN Fail("get_tokens", "UnauthorizedUser", req)
     ELSE IF audiences.some /\ ~client.some THEN Fail("get_tokens", "UnauthorizedClientApp", req)
     ELSE IF audiences.some /\ client.val \notin audiences.val
       THEN Fail("get_tokens", "UnauthorizedClientApp", req)
     ELSE LET user == CHOOSE u \in found : TRUE
              client_id == IF audiences.some THEN client.val ELSE DEFAUTL_CLIENT_ID
          IN IF ~VerifyPassword(user, password) THEN Fail("get_tokens", "InvalidPassword", req)
             ELSE LET tok == GenerateToken(user, client_id)
                      value == <<"rt", next_rt + 1>>
                      row == RefreshTokenInfo(tok, value)
                  IN /\ next_rt < max
                     /\ next_rt' = next_rt + 1
                     /\ refresh_tokens' = PruneExpired(refresh_tokens \cup {row}, now)
                     /\ all_refresh' = all_refresh \cup {row}
                     /\ sres' = Response("get_tokens", "Ok", req,
                                  [NoOut EXCEPT !.id = Some(tok), !.refresh = Some(value)])
                     /\ UNCHANGED <<audiences, users>>

GetTokens(username, password, client) ==
  GetTokensUpTo(username, password, client, MaxLogins)

(* refresh *)
Refresh(value, client) ==
  LET req == [NoReq EXCEPT !.rt = Some(value), !.client = client]
  IN IF audiences.some /\ ~client.some THEN Fail("refresh", "InvalidRequest", req)
     ELSE IF audiences.some /\ client.val \notin audiences.val
       THEN Fail("refresh", "UnauthorizedClientApp", req)
     ELSE LET client_id == IF audiences.some THEN client.val ELSE DEFAUTL_CLIENT_ID
              pruned == PruneExpired(refresh_tokens, now)
              entry_opt == FindRefreshToken(pruned, value, client_id, now)
          IN /\ refresh_tokens' = pruned
             /\ UNCHANGED <<audiences, users, all_refresh, next_rt>>
             /\ IF entry_opt = {}
                  THEN sres' = Response("refresh", "UnauthorizedOrExpiredRefreshToken", req, NoOut)
                  ELSE LET entry == CHOOSE r \in entry_opt : TRUE
                           found == FindUserBySub(users, entry.subscriber_id)
                       IN IF found = {}
                            THEN sres' = Response("refresh", "TokenCreationFailed", req, NoOut)
                            ELSE LET tok == GenerateToken(CHOOSE u \in found : TRUE, client_id)
                                 IN sres' = Response("refresh", "Ok", req,
                                              [NoOut EXCEPT !.id = Some(tok)])

(* ------------------------------------------------------------------ *)
(* Token server: POST /blindsign                                        *)
(* ------------------------------------------------------------------ *)
(* BlindCryptoState::blind_sign *)
BlindSignature == [key_id |-> BlindKeyIdOf(blind_signing_key), signer |-> blind_signing_key]

(* Mutant: the bearer token is verified, its user is not looked up. *)
BlindSignAuth_NoUserCheck(auth, client, bearer) ==
  IF auth.some
    THEN LET found == FindUserByName(users, auth.val.username)
         IN IF found = {} THEN "UnauthorizedUser"
            ELSE IF audiences.some /\ ~client.some THEN "InvalidRequest"
            ELSE IF audiences.some /\ client.val \notin audiences.val THEN "UnauthorizedClientApp"
            ELSE IF ~VerifyPassword(CHOOSE u \in found : TRUE, auth.val.password)
              THEN "InvalidPassword"
            ELSE "ok"
    ELSE IF ~bearer.some THEN "MissingToken"
         ELSE IF VerifyToken(bearer.val) # "ok" THEN "InvalidToken"
         ELSE IF ~CustomGet(bearer.val, "sub").some THEN "InvalidToken"
         ELSE "ok"

(* blind_sign: how the request is authenticated *)
BlindSignAuth(auth, client, bearer) ==
  IF auth.some
    THEN LET found == FindUserByName(users, auth.val.username)
         IN IF found = {} THEN "UnauthorizedUser"
            ELSE IF audiences.some /\ ~client.some THEN "InvalidRequest"
            ELSE IF audiences.some /\ client.val \notin audiences.val THEN "UnauthorizedClientApp"
            ELSE IF ~VerifyPassword(CHOOSE u \in found : TRUE, auth.val.password)
              THEN "InvalidPassword"
            ELSE "ok"
    ELSE IF ~bearer.some THEN "MissingToken"
         ELSE IF VerifyToken(bearer.val) # "ok" THEN "InvalidToken"
         ELSE IF ~CustomGet(bearer.val, "sub").some THEN "InvalidToken"
         ELSE IF FindUserBySub(users, CustomGet(bearer.val, "sub").val) = {} THEN "UnauthorizedUser"
         ELSE "ok"

(* blind_sign *)
BlindSign(auth, client, bearer) ==
  LET req == [NoReq EXCEPT !.auth = auth, !.client = client, !.bearer = bearer]
      authenticated == BlindSignAuth(auth, client, bearer)
  IN IF authenticated # "ok" THEN Fail("blind_sign", authenticated, req)
     ELSE /\ sres' = Response("blind_sign", "Ok", req,
                       [NoOut EXCEPT !.sig = Some(BlindSignature),
                          !.expires_at = Some(rotated_at + BLIND_RSA_ROTATION_PERIOD_MINS * 60)])
          /\ UNCHANGED <<audiences, users, refresh_tokens, all_refresh, next_rt>>

(* blind_sign, first part: the request is authenticated and the blinded
   token is signed under the read lock of the signing key; key_since notes
   when the key that signed was installed *)
BlindSignSign(auth, client, bearer) ==
  /\ bsign.pc \in {"idle", "done"}
  /\ SigningKeyReadable
  /\ LET authenticated == BlindSignAuth(auth, client, bearer)
     IN bsign' = IF authenticated # "ok"
                   THEN [pc |-> "done", kind |-> authenticated, sig |-> NoneOpt,
                         key_since |-> NoneOpt, expires_at |-> NoneOpt]
                   ELSE [pc |-> "signed", kind |-> "Ok", sig |-> Some(BlindSignature),
                         key_since |-> Some(blind_key_since), expires_at |-> NoneOpt]
  /\ UNCHANGED <<blind_signing_key, rotated_at, blind_key_since, rot>>

(* blind_sign, second part: rotated_at is loaded and the response is built *)
BlindSignReply ==
  /\ bsign.pc = "signed"
  /\ bsign' = [bsign EXCEPT !.pc = "done", !.expires_at = Some(rotated_at + RotationPeriod)]
  /\ UNCHANGED <<blind_signing_key, rotated_at, blind_key_since, rot>>

(* ------------------------------------------------------------------ *)
(* Token server: user administration                                    *)
(* ------------------------------------------------------------------ *)
(* .and_then(|v| v.as_bool()).unwrap_or(false) *)
ClaimIsTrue(c) == c.some /\ c.val

(* the bearer-token check the admin handlers begin with, reading the admin
   flag and the subscriber id from the named claims *)
AdminAuth(bearer, admin_claim, sub_claim) ==
  IF ~bearer.some THEN "MissingToken"
  ELSE IF VerifyToken(bearer.val) # "ok" THEN "InvalidToken"
  ELSE IF ~ClaimIsTrue(CustomGet(bearer.val, admin_claim)) THEN "UnauthorizedUser"
  ELSE IF ~CustomGet(bearer.val, sub_claim).some THEN "InvalidToken"
  ELSE LET found == FindUserBySub(users, CustomGet(bearer.val, sub_claim).val)
       IN IF found = {} THEN "UnauthorizedUser"
          ELSE IF ~(CHOOSE u \in found : TRUE).is_admin THEN "InvalidToken"
          ELSE "ok"

(* Uuid::new_v4().to_string(): the ids the model has in store; the random
   id is one that no user has and no token or row names *)
UuidNames == <<"uuid1", "uuid2", "uuid3", "uuid4", "uuid5", "uuid6">>
Uuids == {UuidNames[i] : i \in 1..(MaxLogins + 2)}
FreshSubscriberIds ==
  Uuids \ ({u.subscriber_id : u \in users} \cup {r.subscriber_id : r \in all_refresh})

(* User::new in a running server: the subscriber id is a fresh uuid *)
NewUserWithId(name, password, id) ==
  [NewUser(name, password) EXCEPT !.subscriber_id = id]

(* create_user *)
CreateUser(bearer, username, password) ==
  LET req == [NoReq EXCEPT !.bearer = bearer, !.target = Some(username)]
      authorized == AdminAuth(bearer, "is_admin", "subscriber_id")
  IN IF authorized # "ok" THEN Fail("create_user", authorized, req)
     ELSE IF FindUserByName(users, username) # {} THEN Fail("create_user", "UserCreationFailed", req)
     ELSE /\ FreshSubscriberIds # {}
          /\ users' = users \cup {NewUserWithId(username, password,
                                     CHOOSE id \in FreshSubscriberIds : TRUE)}
          /\ sres' = Response("create_user", "Ok", req, NoOut)
          /\ UNCHANGED <<audiences, refresh_tokens, all_refresh, next_rt>>

(* Mutant: delete_user without the check for the caller and "admin". *)
DeleteUser_NoProhibition(bearer, target_username) ==
  LET req == [NoReq EXCEPT !.bearer = bearer, !.target = Some(target_username)]
      authorized == AdminAuth(bearer, "iad", "sub")
  IN IF authorized # "ok" THEN Fail("delete_user", authorized, req)
     ELSE IF FindUserByName(users, target_username) = {}
       THEN Fail("delete_user", "NoSuchUser", req)
     ELSE /\ users' = {r \in users : r.username # target_username}
          /\ sres' = Response("delete_user", "Ok", req, NoOut)
          /\ UNCHANGED <<audiences, refresh_tokens, all_refresh, next_rt>>

(* delete_user *)
DeleteUser(bearer, target_username) ==
  LET req == [NoReq EXCEPT !.bearer = bearer, !.target = Some(target_username)]
      authorized == AdminAuth(bearer, "iad", "sub")
      u == FindUserByName(users, target_username)
  IN IF authorized # "ok" THEN Fail("delete_user", authorized, req)
     ELSE IF u = {} THEN Fail("delete_user", "NoSuchUser", req)
     ELSE LET request_user == CHOOSE r \in FindUserBySub(users, bearer.val.sub) : TRUE
              target_user == CHOOSE r \in u : TRUE
          IN IF request_user.username = target_user.username
                  \/ target_user.username = ADMIN_USERNAME
               THEN Fail("delete_user", "DeleteProhibitedUser", req)
               ELSE /\ users' = {r \in users : r.username # target_username}
                    /\ sres' = Response("delete_user", "Ok", req, NoOut)
                    /\ UNCHANGED <<audiences, refresh_tokens, all_refresh, next_rt>>

(* Mutant: the username column is not unique. *)
UsernameTaken_Never(rows, sub, name) == FALSE

(* the users table declares username unique: a row other than the one of
   subscriber id sub already has the name *)
UsernameTaken(rows, sub, name) ==
  \E r \in rows : r.subscriber_id # sub /\ r.username = name

(* SqliteUserTable::update_user: the row of subscriber id sub gets the new
   username and/or the hash of the new password; the call fails when neither
   is given and when the database refuses the statement *)
TableUpdateUser(rows, sub, new_username, new_password) ==
  IF ~new_username.some /\ ~new_password.some THEN NoneOpt
  ELSE IF new_username.some /\ UsernameTaken(rows, sub, new_username.val) THEN NoneOpt
  ELSE Some({[r EXCEPT !.username = IF r.subscriber_id = sub /\ new_username.some
                                        THEN new_username.val ELSE @,
                       !.encoded_hash = IF r.subscriber_id = sub /\ new_password.some
                                        THEN new_password.val ELSE @] : r \in rows})

(* Mutant: update_user lets the admin take a new username. *)
UpdateUser_AdminRename(bearer, new_username, new_password) ==
  LET req == [NoReq EXCEPT !.bearer = bearer, !.target = new_username,
                           !.password = new_password]
  IN IF ~bearer.some THEN Fail("update_user", "MissingToken", req)
     ELSE IF VerifyToken(bearer.val) # "ok" THEN Fail("update_user", "InvalidToken", req)
     ELSE LET sub == bearer.val.sub
              found == FindUserBySub(users, sub)
          IN IF found = {} THEN Fail("update_user", "UnauthorizedUser", req)
             ELSE LET updated == TableUpdateUser(users, sub, new_username, new_password)
                  IN IF ~updated.some THEN Fail("update_user", "UserUpdateFailed", req)
                     ELSE /\ users' = updated.val
                          /\ sres' = Response("update_user", "Ok", req, NoOut)
                          /\ UNCHANGED <<audiences, refresh_tokens, all_refresh, next_rt>>

(* update_user: any user, for its own record *)
UpdateUser(bearer, new_username, new_password) ==
  LET req == [NoReq EXCEPT !.bearer = bearer, !.target = new_username,
                           !.password = new_password]
  IN IF ~bearer.some THEN Fail("update_user", "MissingToken", req)
     ELSE IF VerifyToken(bearer.val) # "ok" THEN Fail("update_user", "InvalidToken", req)
     ELSE LET sub == bearer.val.sub
              found == FindUserBySub(users, sub)
          IN IF found = {} THEN Fail("update_user", "UnauthorizedUser", req)
             ELSE IF (CHOOSE u \in found : TRUE).username = ADMIN_USERNAME /\ new_username.some
               THEN Fail("update_user", "ChangeAdminNameProhibited", req)
             ELSE LET updated == TableUpdateUser(users, sub, new_username, new_password)
                  IN IF ~updated.some THEN Fail("update_user", "UserUpdateFailed", req)
                     ELSE /\ users' = updated.val
                          /\ sres' = Response("update_user", "Ok", req, NoOut)
                          /\ UNCHANGED <<audiences, refresh_tokens, all_refresh, next_rt>>

(* SqliteUserTable::list_users: the number of pages *)
TotalPages(cnt) == (cnt + MAX_USERS_PER_PAGE - 1) \div MAX_USERS_PER_PAGE

(* list_users; the table of the model fits on one page *)
ListUsers(bearer, page) ==
  LET req == [NoReq EXCEPT !.bearer = bearer, !.target = Some(page)]
      authorized == AdminAuth(bearer, "iad", "sub")
  IN IF authorized # "ok" THEN Fail("list_users", authorized, req)
     ELSE IF page = 0 \/ page > TotalPages(Cardinality(users))
       THEN Fail("list_users", "UserListFailed", req)
     ELSE /\ sres' = Response("list_users", "Ok", req,
                       [NoOut EXCEPT !.list = Some({[username |-> r.username,
                                                     subscriber_id |-> r.subscriber_id,
                                                     is_admin |-> r.is_admin] : r \in users})])
          /\ UNCHANGED <<audiences, users, refresh_tokens, all_refresh, next_rt>>

(* ------------------------------------------------------------------ *)
(* Token server: requests                                               *)
(* ------------------------------------------------------------------ *)
AudOfConfig == IF audiences.some THEN "c1" ELSE DEFAUTL_CLIENT_ID

(* an id token made by someone who does not hold the server's key *)
ForgedAdminToken ==
  Authorize(AttackerKey, SubscriberIdOf(ADMIN_USERNAME), AudOfConfig, ServerIssuer, TRUE, now)

(* an id token the server issued to the admin of an earlier database *)
EarlierAdminToken ==
  Authorize(ServerKey, "sub_earlier", AudOfConfig, ServerIssuer, TRUE, Epoch)

(* the id token that came with a refresh token at login: the row records
   its subject, its audience and, through expires, when it was issued *)
LoginToken(row) ==
  Authorize(ServerKey, row.subscriber_id, row.client_id, ServerIssuer,
            row.subscriber_id = SubscriberIdOf(ADMIN_USERNAME),
            row.expires - REFRESH_TOKEN_DURATION_MINS * 60)

(* bearer tokens a request may carry: none, one a login handed out, a forged
   one, one from an earlier database *)
BearerOpts ==
  {NoneOpt} \cup {Some(LoginToken(row)) : row \in all_refresh}
            \cup {Some(ForgedAdminToken), Some(EarlierAdminToken)}

Auth(u, p) == Some([username |-> u, password |-> p])

(* POST /tokens requests next to user administration *)
UsersTokensRequests ==
  {<<u, "pw", c>> : u \in {"alice", ADMIN_USERNAME}, c \in {NoneOpt, Some("c1")}}
    \cup {<<"alice", "new", Some("c1")>>}

(* POST /update_user requests: a new username, a new password, both, none *)
UpdateRequests ==
  {<<n, p>> : n \in {NoneOpt, Some("bob"), Some(ADMIN_USERNAME)}, p \in {NoneOpt, Some("new")}}

(* POST /tokens requests *)
TokensRequests ==
  {<<"alice", "pw", c>> : c \in ClientOpts}
    \cup {<<ADMIN_USERNAME, "pw", c>> : c \in {NoneOpt, Some("c1")}}
    \cup {<<"bob", "pw", Some("c1")>>, <<"alice", "bad", Some("c1")>>}

(* POST /blindsign requests: with inline credentials, with a bearer token
   only, and with bad credentials next to a bearer token *)
BlindSignRequests ==
  {<<Auth("alice", "pw"), c, NoneOpt>> : c \in ClientOpts}
    \cup {<<Auth("bob", "pw"), Some("c1"), NoneOpt>>}
    \cup {<<Auth("alice", "bad"), Some("c1"), b>> : b \in BearerOpts}
    \cup {<<NoneOpt, NoneOpt, b>> : b \in BearerOpts}

ServerTickDeltas == {1, REFRESH_TOKEN_DURATION_MINS * 60 - 1}

ServerInit ==
  /\ now = Epoch
  /\ ticks = 0
  /\ InitValidator
  /\ InitAux
  /\ InitClient
  /\ InitRotation
  /\ InitBlind
  /\ InitServer

(* the server takes one request at a time *)
Idle == sres = ServerNoCall

(* the response is sent; the server waits for the next request *)
Respond ==
  /\ ~Idle
  /\ sres' = ServerNoCall
  /\ UNCHANGED <<audiences, users, refresh_tokens, all_refresh, next_rt>>

ServerNext ==
  \/ \E d \in ServerTickDeltas : Idle /\ ticks < MaxServerTicks /\ Tick(d)
       /\ UNCHANGED <<serverVars, rotationVars, notServer>>
  \/ Respond /\ UNCHANGED <<now, ticks, rotationVars, notServer>>
  \/ \E r \in TokensRequests : Idle /\ GetTokens(r[1], r[2], r[3])
       /\ UNCHANGED <<now, ticks, rotationVars, notServer>>
  \/ \E v \in RefreshValues, c \in ClientOpts : Idle /\ Refresh(v, c)
       /\ UNCHANGED <<now, ticks, rotationVars, notServer>>
  \/ \E r \in BlindSignRequests : Idle /\ BlindSign(r[1], r[2], r[3])
       /\ UNCHANGED <<now, ticks, rotationVars, notServer>>
  \/ \E b \in BearerOpts, u \in {"alice", "bob"} : Idle /\ CreateUser(b, u, "pw")
       /\ UNCHANGED <<now, ticks, rotationVars, notServer>>
  \/ \E b \in BearerOpts, u \in Usernames : Idle /\ DeleteUser(b, u)
       /\ UNCHANGED <<now, ticks, rotationVars, notServer>>
  \/ \E b \in BearerOpts, page \in 0..2 : Idle /\ ListUsers(b, page)
       /\ UNCHANGED <<now, ticks, rotationVars, notServer>>

SpecServer == ServerInit /\ [][ServerNext]_vars

(* ---- the refresh token table under concurrent requests ---- *)
(* get_tokens, lines 89-97: the token is generated and its row is made, with
   expires = now + REFRESH_TOKEN_DURATION_MINS *)
PruneAddMake ==
  /\ pr.add.pc = "idle"
  /\ next_rt < MaxLogins
  /\ next_rt' = next_rt + 1
  /\ LET tok == GenerateToken(NewUser("alice", "pw"), DEFAUTL_CLIENT_ID)
     IN pr' = [pr EXCEPT !.add = [pc |-> "made",
                                  row |-> RefreshTokenInfo(tok, <<"rt", next_rt + 1>>)]]
  /\ UNCHANGED <<audiences, users, refresh_tokens, all_refresh, sres>>

(* add: the insert statement is executed *)
PruneAddInsert ==
  /\ pr.add.pc = "made"
  /\ refresh_tokens' = refresh_tokens \cup {pr.add.row}
  /\ all_refresh' = all_refresh \cup {pr.add.row}
  /\ pr' = [pr EXCEPT !.add.pc = "added", !.ins = @ \cup {<<pr.add.row, now>>}]
  /\ UNCHANGED <<audiences, users, next_rt, sres>>

(* prune_expired of add_and_prune: current is read from the clock *)
PruneAddSnapshot ==
  /\ pr.add.pc = "added"
  /\ pr' = [pr EXCEPT !.add = [pc |-> "pruning", row |-> pr.add.row, current |-> now]]
  /\ UNCHANGED <<audiences, users, refresh_tokens, all_refresh, next_rt, sres>>

(* prune_expired of add_and_prune: the delete statement is executed *)
PruneAddDelete ==
  /\ pr.add.pc = "pruning"
  /\ refresh_tokens' = PruneExpired(refresh_tokens, pr.add.current)
  /\ pr' = [pr EXCEPT !.add = [pc |-> "idle"]]
  /\ UNCHANGED <<audiences, users, all_refresh, next_rt, sres>>

(* prune_expired of another request (prune_and_find of a refresh): current
   is read from the clock *)
PruneSnapshot ==
  /\ pr.prune.pc = "idle"
  /\ pr' = [pr EXCEPT !.prune = [pc |-> "snap", current |-> now, deleted |-> {}]]
  /\ UNCHANGED <<audiences, users, refresh_tokens, all_refresh, next_rt, sres>>

(* prune_expired of the other request: the delete statement is executed *)
PruneDelete ==
  /\ pr.prune.pc = "snap"
  /\ refresh_tokens' = PruneExpired(refresh_tokens, pr.prune.current)
  /\ pr' = [pr EXCEPT !.prune.pc = "idle",
                      !.prune.deleted = refresh_tokens \ PruneExpired(refresh_tokens, pr.prune.current)]
  /\ UNCHANGED <<audiences, users, all_refresh, next_rt, sres>>

notPrune ==
  <<validatorVars, clientVars, blindVars, clientBlindVars, rotationVars,
    minted, validated, bjwks, bfetch, refetchVars, cl, got, lateVars>>

(* a login and the prune of another request, statement by statement; a
   request takes seconds, the time between requests may be weeks *)
PruneNext ==
  \/ ticks < MaxServerTicks /\ Tick(1) /\ UNCHANGED <<serverVars, pr, notPrune>>
  \/ /\ pr.add.pc = "idle" /\ pr.prune.pc = "idle" /\ ticks < MaxServerTicks
     /\ Tick(REFRESH_TOKEN_DURATION_MINS * 60 - 1)
     /\ UNCHANGED <<serverVars, pr, notPrune>>
  \/ PruneAddMake /\ UNCHANGED <<now, ticks, notPrune>>
  \/ PruneAddInsert /\ UNCHANGED <<now, ticks, notPrune>>
  \/ PruneAddSnapshot /\ UNCHANGED <<now, ticks, notPrune>>
  \/ PruneAddDelete /\ UNCHANGED <<now, ticks, notPrune>>
  \/ PruneSnapshot /\ UNCHANGED <<now, ticks, notPrune>>
  \/ PruneDelete /\ UNCHANGED <<now, ticks, notPrune>>

PruneInit == ServerInit /\ audiences = NoneOpt

SpecPrune == PruneInit /\ [][PruneNext]_vars

(* ------------------------------------------------------------------ *)
(* Client: blind signatures (lib-client auth_blind.rs)                  *)
(* ------------------------------------------------------------------ *)
BlindSlots == [blind_validation_key |-> blind_validation_key,
               anonymous_token |-> anonymous_token,
               blind_expires_at |-> blind_expires_at]

(* a call of the client and its result: sent counts the HTTP requests the
   call made, pre holds the slots as the call found them *)
ClientResult(op, kind, sent) ==
  [op |-> op, kind |-> kind, sent |-> sent, pre |-> BlindSlots,
   pre_id_token |-> id_token]

(* token(), whatever the id_token slot holds *)
TokenGet ==
  /\ cres' = ClientResult("token", IF id_token.some THEN "Ok" ELSE "NoIdToken", 0)
  /\ UNCHANGED <<blind_validation_key, anonymous_token, blind_expires_at>>

(* answers to POST /blindsign with the id token as bearer: an error status,
   or, when the server accepts the id token, the signature of its current
   key with expires_at = rotated_at + rotation period *)
BlindSignResponses ==
  {NoneOpt} \cup
  IF id_token.some /\ BlindSignAuth(NoneOpt, NoneOpt, Some(id_token.val.id)) = "ok"
    THEN {Some([blind_signature |-> BlindSignature,
                expires_at |-> rotated_at + RotationPeriod])}
    ELSE {}

(* RsaPublicKey::unblind: finalize checks the signature against the key the
   message was blinded with; the token takes the key id of the response *)
Unblind(pk, blind_sig) ==
  IF blind_sig.signer = pk
    THEN Some([key_id |-> blind_sig.key_id, signer |-> blind_sig.signer])
    ELSE NoneOpt

(* verify_anonymous_token, on the values the slots are about to hold *)
VerifyAnonymousToken(tok, pk, expires_at) ==
  IF ~tok.some THEN "NoAnonymousToken"
  ELSE IF ~pk.some THEN "NoBlindValidationKey"
  ELSE IF ~expires_at.some THEN "InvalidExpireTimeBlindValidationKey"
  ELSE IF expires_at.val <= now THEN "InvalidExpireTimeBlindValidationKey"
  ELSE IF ~BlindVerify(pk.val, tok.val) THEN "InvalidBlindSignature"
  ELSE "Ok"

(* request_blind_signature_with_id_token; the read lock on the blind
   validation key is held from the blinding to the return *)
RequestBlindSignature(resp) ==
  IF ~id_token.some
    THEN /\ cres' = ClientResult("blind_sign", "NoIdToken", 0)
         /\ UNCHANGED <<blind_validation_key, anonymous_token, blind_expires_at>>
  ELSE IF ~blind_validation_key.some
    THEN /\ cres' = ClientResult("blind_sign", "NoBlindValidationKey", 0)
         /\ UNCHANGED <<blind_validation_key, anonymous_token, blind_expires_at>>
  ELSE IF ~resp.some
    THEN /\ cres' = ClientResult("blind_sign", "TokenHttpClientErrorResponse", 1)
         /\ UNCHANGED <<blind_validation_key, anonymous_token, blind_expires_at>>
  ELSE LET tok == Unblind(blind_validation_key.val, resp.val.blind_signature)
       IN IF ~tok.some
            THEN /\ cres' = ClientResult("blind_sign", "FailedToUnblindSignedResponse", 1)
                 /\ UNCHANGED <<blind_validation_key, anonymous_token, blind_expires_at>>
            ELSE /\ anonymous_token' = tok
                 /\ blind_expires_at' = Some(resp.val.expires_at)
                 /\ cres' = ClientResult("blind_sign",
                               VerifyAnonymousToken(tok, blind_validation_key,
                                                    Some(resp.val.expires_at)), 1)
                 /\ UNCHANGED blind_validation_key

(* answers to GET /blindjwks: a failed fetch, an empty key list, or the
   server's current key as the first JWK, which may lack its kid, name the
   kid of another key, or not parse *)
ClientBlindJwksResponses ==
  {[fetched |-> FALSE, keys |-> <<>>], [fetched |-> TRUE, keys |-> <<>>]} \cup
  {[fetched |-> TRUE, keys |-> <<[kid |-> kid, key |-> blind_signing_key, parses |-> p]>>] :
     kid \in {NoneOpt} \cup {Some(BlindKeyIdOf(k)) : k \in BlindKeys}, p \in BOOLEAN}

(* Mutant: the fetched key replaces the stored one before its kid is
   compared with its key id. *)
UpdateBlindValidationKeyIfStale_StoreFirst(resp) ==
  /\ anonymous_token' = anonymous_token
  /\ blind_expires_at' = blind_expires_at
  /\ IF ~resp.fetched
       THEN /\ cres' = ClientResult("update_blind_key", "TokenHttpClientErrorResponse", 1)
            /\ UNCHANGED blind_validation_key
       ELSE IF resp.keys = <<>>
         THEN /\ cres' = ClientResult("update_blind_key", "NoJwkInBlindJwks", 1)
              /\ UNCHANGED blind_validation_key
         ELSE LET jwk == Head(resp.keys)
              IN IF ~jwk.kid.some
                   THEN /\ cres' = ClientResult("update_blind_key", "NoKeyIdInBlindJwks", 1)
                        /\ UNCHANGED blind_validation_key
                   ELSE IF ~jwk.parses
                     THEN /\ cres' = ClientResult("update_blind_key", "FailedToParseJwk", 1)
                          /\ UNCHANGED blind_validation_key
                     ELSE /\ blind_validation_key' = Some(jwk.key)
                          /\ cres' = ClientResult("update_blind_key",
                               IF jwk.kid.val # BlindKeyIdOf(jwk.key) THEN "InvalidJwk"
                               ELSE IF blind_validation_key # Some(jwk.key) THEN "Ok_true"
                               ELSE "Ok_false", 1)

(* update_blind_validation_key_if_stale *)
UpdateBlindValidationKeyIfStale(resp) ==
  /\ UNCHANGED <<anonymous_token, blind_expires_at>>
  /\ IF ~resp.fetched
       THEN /\ cres' = ClientResult("update_blind_key", "TokenHttpClientErrorResponse", 1)
            /\ UNCHANGED blind_validation_key
       ELSE IF resp.keys = <<>>
         THEN /\ cres' = ClientResult("update_blind_key", "NoJwkInBlindJwks", 1)
              /\ UNCHANGED blind_validation_key
         ELSE LET jwk == Head(resp.keys)
              IN IF ~jwk.kid.some
                   THEN /\ cres' = ClientResult("update_blind_key", "NoKeyIdInBlindJwks", 1)
                        /\ UNCHANGED blind_validation_key
                   ELSE IF ~jwk.parses
                     THEN /\ cres' = ClientResult("update_blind_key", "FailedToParseJwk", 1)
                          /\ UNCHANGED blind_validation_key
                   ELSE IF jwk.kid.val # BlindKeyIdOf(jwk.key)
                     THEN /\ cres' = ClientResult("update_blind_key", "InvalidJwk", 1)
                          /\ UNCHANGED blind_validation_key
                   ELSE IF ~blind_validation_key.some \/ blind_validation_key.val # jwk.key
                     THEN /\ blind_validation_key' = Some(jwk.key)
                          /\ cres' = ClientResult("update_blind_key", "Ok_true", 1)
                     ELSE /\ cres' = ClientResult("update_blind_key", "Ok_false", 1)
                          /\ UNCHANGED blind_validation_key

ClientBlindTickDeltas == {1, RotationPeriod - 1, RotationPeriod}

(* the caller has its result; the client is ready for the next call *)
ClientReturn ==
  /\ cres # ClientNoCall
  /\ cres' = ClientNoCall
  /\ UNCHANGED <<blind_validation_key, anonymous_token, blind_expires_at>>

Quiet == AllIdle /\ cres = ClientNoCall

(* one client logs in once; time passes, the server rotates its RSA key,
   and the client fetches the key and asks for blind signatures *)
ClientBlindNext ==
  \/ \E d \in ClientBlindTickDeltas : Quiet /\ ticks < MaxClientBlindTicks /\ Tick(d)
       /\ UNCHANGED <<rotationVars, serverVars, notServer>>
  \/ Quiet /\ RotationStore /\ UNCHANGED <<now, ticks, serverVars, notServer>>
  \/ \E g \in BOOLEAN : Quiet /\ RotationGenerate(g)
       /\ UNCHANGED <<now, ticks, serverVars, notServer>>
  \/ Quiet /\ RotationInstall /\ UNCHANGED <<now, ticks, serverVars, notServer>>
  \/ Quiet /\ issued = 0 /\ StartLogin(1) /\ UNCHANGED notClient
  \/ ClientStep(1) /\ UNCHANGED notClient
  \/ ClientReturn
       /\ UNCHANGED <<now, ticks, validatorVars, clientVars, rotationVars, blindVars, serverVars,
                      auxVars>>
  \/ \E resp \in ClientBlindJwksResponses :
       Quiet /\ SigningKeyReadable /\ UpdateBlindValidationKeyIfStale(resp)
       /\ UNCHANGED <<now, ticks, validatorVars, clientVars, rotationVars, blindVars, serverVars,
                      auxVars>>
  \/ \E resp \in BlindSignResponses :
       Quiet /\ SigningKeyReadable /\ RequestBlindSignature(resp)
       /\ UNCHANGED <<now, ticks, validatorVars, clientVars, rotationVars, blindVars, serverVars,
                      auxVars>>

ClientBlindInit == ServerInit /\ audiences = NoneOpt

(* ---- the blind-signature calls, await point by await point ---- *)
(* a guard of a tokio RwLock: the call that holds it, the slot, the mode *)
Guard(call, slot, mode) == <<call, slot, mode>>
GuardsOf(call) == {g \in cl.held : g[1] = call}
ReadersOf(slot) == {g \in cl.held : g[2] = slot /\ g[3] = "read"}

LocksQuiet == Quiet /\ cl.req = "idle" /\ cl.upd = "idle"

(* request_blind_signature_with_id_token, lines 19-51: the id token is read
   and its guard dropped; the read guard on blind_validation_key is taken
   at line 34 and kept, the key is used through it; the POST is sent *)
LockRequestStart ==
  /\ AllIdle /\ cres = ClientNoCall /\ cl.req = "idle"
  /\ IF ~id_token.some
       THEN /\ cres' = ClientResult("blind_sign", "NoIdToken", 0)
            /\ UNCHANGED cl
       ELSE IF ~blind_validation_key.some
         THEN /\ cres' = ClientResult("blind_sign", "NoBlindValidationKey", 0)
              /\ UNCHANGED cl
         ELSE /\ cl' = [cl EXCEPT !.req = "post",
                           !.held = @ \cup {Guard("request", "blind_validation_key", "read")}]
              /\ UNCHANGED cres
  /\ UNCHANGED <<blind_validation_key, anonymous_token, blind_expires_at>>

(* lines 52-66: the answer to the POST arrives; the signature is unblinded
   with the key behind the guard and the two slots are written, each under
   a write guard that is dropped at once *)
LockRequestPost(resp) ==
  /\ cl.req = "post"
  /\ UNCHANGED blind_validation_key
  /\ IF ~resp.some
       THEN /\ cres' = ClientResult("blind_sign", "TokenHttpClientErrorResponse", 1)
            /\ cl' = [cl EXCEPT !.req = "idle", !.held = @ \ GuardsOf("request")]
            /\ UNCHANGED <<anonymous_token, blind_expires_at>>
       ELSE LET tok == Unblind(blind_validation_key.val, resp.val.blind_signature)
            IN IF ~tok.some
                 THEN /\ cres' = ClientResult("blind_sign", "FailedToUnblindSignedResponse", 1)
                      /\ cl' = [cl EXCEPT !.req = "idle", !.held = @ \ GuardsOf("request")]
                      /\ UNCHANGED <<anonymous_token, blind_expires_at>>
                 ELSE /\ anonymous_token' = tok
                      /\ blind_expires_at' = Some(resp.val.expires_at)
                      /\ cl' = [cl EXCEPT !.req = "verify"]
                      /\ UNCHANGED cres

(* line 69, verify_anonymous_token: the slots are read again, each guard
   dropped after the read; the call returns and its guard of line 34 goes *)
LockRequestVerify ==
  /\ cl.req = "verify"
  /\ cres' = ClientResult("blind_sign",
                VerifyAnonymousToken(anonymous_token, blind_validation_key,
                                     blind_expires_at), 1)
  /\ cl' = [cl EXCEPT !.req = "idle", !.held = @ \ GuardsOf("request")]
  /\ UNCHANGED <<blind_validation_key, anonymous_token, blind_expires_at>>

(* update_blind_validation_key_if_stale, lines 84-112: what the answer of
   GET /blindjwks yields: an error, or the fetched key *)
FetchedBlindKey(resp) ==
  IF ~resp.fetched THEN [kind |-> "TokenHttpClientErrorResponse"]
  ELSE IF resp.keys = <<>> THEN [kind |-> "NoJwkInBlindJwks"]
  ELSE LET jwk == Head(resp.keys)
       IN IF ~jwk.kid.some THEN [kind |-> "NoKeyIdInBlindJwks"]
          ELSE IF ~jwk.parses THEN [kind |-> "FailedToParseJwk"]
          ELSE IF jwk.kid.val # BlindKeyIdOf(jwk.key) THEN [kind |-> "InvalidJwk"]
          ELSE [kind |-> "Ok", key |-> jwk.key]

(* lines 77-127: the key is fetched and compared with the stored one under
   a read guard that is dropped before replace_blind_validation_key *)
LockUpdateStart(resp) ==
  /\ AllIdle /\ cl.upd = "idle"
  /\ LET fetched == FetchedBlindKey(resp)
     IN IF fetched.kind # "Ok"
          THEN cl' = [cl EXCEPT !.updated = fetched.kind]
          ELSE IF blind_validation_key = Some(fetched.key)
            THEN cl' = [cl EXCEPT !.updated = "Ok_false"]
            ELSE cl' = [cl EXCEPT !.upd = "write", !.key = Some(fetched.key),
                                  !.updated = "running"]
  /\ UNCHANGED <<blind_validation_key, anonymous_token, blind_expires_at, cres>>

(* replace_blind_validation_key, lines 134-141: write().await is granted
   when no read guard on the slot is held *)
LockUpdateWriteFrom(at) ==
  /\ cl.upd = at
  /\ ReadersOf("blind_validation_key") = {}
  /\ blind_validation_key' = cl.key
  /\ cl' = [cl EXCEPT !.upd = "idle", !.key = NoneOpt, !.updated = "Ok_true"]
  /\ UNCHANGED <<anonymous_token, blind_expires_at, cres>>

LockUpdateWrite == LockUpdateWriteFrom("write")

(* write().await of line 135 is polled: the writer takes its place in the
   queue of the lock *)
LockUpdateEnqueue ==
  /\ cl.upd = "write"
  /\ cl' = [cl EXCEPT !.upd = "queued"]
  /\ UNCHANGED <<blind_validation_key, anonymous_token, blind_expires_at, cres>>

(* tokio's RwLock is fair (write-preferring): a read() is granted only
   when no writer is queued before it *)
ReadGranted(slot) == ~(slot = "blind_validation_key" /\ cl.upd = "queued")

(* line 69 under the fair lock: read().await of line 151 waits behind a
   queued writer *)
LockRequestVerifyFair ==
  /\ ReadGranted("blind_validation_key")
  /\ LockRequestVerify

(* one client logs in; the server rotates its key; a task asks for blind
   signatures while another keeps the blind validation key up to date *)
ClientLocksNext ==
  \/ \E d \in {RotationPeriod} : LocksQuiet /\ ticks < MaxClientBlindTicks /\ Tick(d)
       /\ UNCHANGED <<rotationVars, serverVars, notServer>>
  \/ LocksQuiet /\ RotationStore /\ UNCHANGED <<now, ticks, serverVars, notServer>>
  \/ \E g \in BOOLEAN : LocksQuiet /\ RotationGenerate(g)
       /\ UNCHANGED <<now, ticks, serverVars, notServer>>
  \/ LocksQuiet /\ RotationInstall /\ UNCHANGED <<now, ticks, serverVars, notServer>>
  \/ LocksQuiet /\ issued = 0 /\ StartLogin(1) /\ UNCHANGED notClient
  \/ ClientStep(1) /\ UNCHANGED notClient
  \/ ClientReturn
       /\ UNCHANGED <<now, ticks, validatorVars, clientVars, rotationVars, blindVars, serverVars,
                      auxVars>>
  \/ LockRequestStart
       /\ UNCHANGED <<now, ticks, validatorVars, clientVars, rotationVars, blindVars, serverVars,
                      minted, validated, bjwks, bfetch, refetchVars, got, pr, lateVars>>
  \/ \E resp \in BlindSignResponses : SigningKeyReadable /\ LockRequestPost(resp)
       /\ UNCHANGED <<now, ticks, validatorVars, clientVars, rotationVars, blindVars, serverVars,
                      minted, validated, bjwks, bfetch, refetchVars, got, pr, lateVars>>
  \/ LockRequestVerify
       /\ UNCHANGED <<now, ticks, validatorVars, clientVars, rotationVars, blindVars, serverVars,
                      minted, validated, bjwks, bfetch, refetchVars, got, pr, lateVars>>
  \/ \E resp \in ClientBlindJwksResponses : SigningKeyReadable /\ LockUpdateStart(resp)
       /\ UNCHANGED <<now, ticks, validatorVars, clientVars, rotationVars, blindVars, serverVars,
                      minted, validated, bjwks, bfetch, refetchVars, got, pr, lateVars>>
  \/ LockUpdateWrite
       /\ UNCHANGED <<now, ticks, validatorVars, clientVars, rotationVars, blindVars, serverVars,
                      minted, validated, bjwks, bfetch, refetchVars, got, pr, lateVars>>

SpecClientLocks == ClientBlindInit /\ [][ClientLocksNext]_vars

notLocks ==
  <<now, ticks, validatorVars, clientVars, rotationVars, blindVars, serverVars,
    minted, validated, bjwks, bfetch, refetchVars, got, pr, lateVars>>

(* the server's rotation task does not wait for the client: it runs also
   while a blind-signature request of the client is in flight *)
ServerQuiet == Quiet /\ cl.upd # "write"

(* the same client with the queue of the lock: a writer that finds readers
   waits in the queue, and readers that come later wait behind it *)
ClientFairLocksNext ==
  \/ \E d \in {RotationPeriod} : LocksQuiet /\ ticks < MaxClientBlindTicks /\ Tick(d)
       /\ UNCHANGED <<rotationVars, serverVars, notServer>>
  \/ ServerQuiet /\ RotationStore /\ UNCHANGED <<now, ticks, serverVars, notServer>>
  \/ \E g \in BOOLEAN : ServerQuiet /\ RotationGenerate(g)
       /\ UNCHANGED <<now, ticks, serverVars, notServer>>
  \/ ServerQuiet /\ RotationInstall /\ UNCHANGED <<now, ticks, serverVars, notServer>>
  \/ LocksQuiet /\ issued = 0 /\ StartLogin(1) /\ UNCHANGED notClient
  \/ ClientStep(1) /\ UNCHANGED notClient
  \/ ClientReturn
       /\ UNCHANGED <<now, ticks, validatorVars, clientVars, rotationVars, blindVars, serverVars,
                      auxVars>>
  \/ ReadGranted("blind_validation_key") /\ LockRequestStart /\ UNCHANGED notLocks
  \/ \E resp \in BlindSignResponses : SigningKeyReadable /\ LockRequestPost(resp)
       /\ UNCHANGED notLocks
  \/ LockRequestVerifyFair /\ UNCHANGED notLocks
  \/ \E resp \in ClientBlindJwksResponses : SigningKeyReadable /\ LockUpdateStart(resp)
       /\ UNCHANGED notLocks
  \/ LockUpdateEnqueue /\ UNCHANGED notLocks
  \/ LockUpdateWriteFrom("queued") /\ UNCHANGED notLocks

FairLocksInit == ClientBlindInit

(* the executor polls every task that can make progress *)
FairLocksRuns ==
  /\ WF_vars(LockRequestVerifyFair /\ UNCHANGED notLocks)
  /\ WF_vars(\E resp \in BlindSignResponses :
               SigningKeyReadable /\ LockRequestPost(resp) /\ UNCHANGED notLocks)
  /\ WF_vars(LockUpdateWriteFrom("queued") /\ UNCHANGED notLocks)

SpecClientFairLocks == FairLocksInit /\ [][ClientFairLocksNext]_vars /\ FairLocksRuns

SpecClientBlind == ClientBlindInit /\ [][ClientBlindNext]_vars

(* ---- blind_remaining_seconds_until_expiration ---- *)
Word == 2 ^ WordBits

(* a - b on unsigned words: with overflow checks (the default of a debug
   build) a result below zero panics, without them (the default of a
   release build) it wraps *)
SubUnsigned(a, b, build) ==
  IF a < b /\ build = "debug"
    THEN [panic |-> TRUE]
    ELSE [panic |-> FALSE, val |-> (a - b) % Word, wrapped |-> a < b]

(* v as i64: the same bits read as a two's complement number *)
AsSigned(v) == IF v >= Word \div 2 THEN v - Word ELSE v

Builds == {"debug", "release"}

(* auth_blind.rs 180-194 *)
BlindRemainingSecondsUntilExpiration(build) ==
  /\ rem' = IF ~blind_expires_at.some
              THEN [called |-> TRUE, kind |-> "InvalidExpireTimeBlindValidationKey",
                    build |-> build]
              ELSE LET expires_at == blind_expires_at.val
                       current == now
                       diff == SubUnsigned(expires_at, current, build)
                   IN IF diff.panic
                        THEN [called |-> TRUE, kind |-> "panic", build |-> build,
                              expires_at |-> expires_at, current |-> current]
                        ELSE [called |-> TRUE, kind |-> "Ok", build |-> build,
                              expires_at |-> expires_at, current |-> current,
                              val |-> AsSigned(diff.val), wrapped |-> diff.wrapped]
  /\ UNCHANGED <<now, ticks, validatorVars, clientVars, rotationVars, blindVars, serverVars,
                 clientBlindVars, auxEarly, sb, gen>>

(* the client of SpecClientBlind, asking for the remaining seconds between
   its other calls; the profile the library was built with is not known *)
RemainingNext ==
  \/ ClientBlindNext
  \/ \E build \in Builds : Quiet /\ BlindRemainingSecondsUntilExpiration(build)

RemainingInit == ClientBlindInit

SpecRemaining == RemainingInit /\ [][RemainingNext]_vars

(* one client, at one time: login and refresh run to their return one at a
   time, and token() and the blind-signature methods are called in between *)
ClientGuardsNext ==
  \/ Quiet /\ StartLogin(1) /\ UNCHANGED notClient
  \/ Quiet /\ StartRefresh(1) /\ UNCHANGED notClient
  \/ ClientStep(1) /\ UNCHANGED notClient
  \/ ClientReturn
       /\ UNCHANGED <<now, ticks, validatorVars, clientVars, rotationVars, blindVars, serverVars,
                      auxVars>>
  \/ Quiet /\ TokenGet
       /\ UNCHANGED <<now, ticks, validatorVars, clientVars, rotationVars, blindVars, serverVars,
                      auxVars>>
  \/ \E resp \in ClientBlindJwksResponses :
       Quiet /\ SigningKeyReadable /\ UpdateBlindValidationKeyIfStale(resp)
       /\ UNCHANGED <<now, ticks, validatorVars, clientVars, rotationVars, blindVars, serverVars,
                      auxVars>>
  \/ \E resp \in BlindSignResponses :
       Quiet /\ SigningKeyReadable /\ RequestBlindSignature(resp)
       /\ UNCHANGED <<now, ticks, validatorVars, clientVars, rotationVars, blindVars, serverVars,
                      auxVars>>

SpecClientGuards == ClientBlindInit /\ [][ClientGuardsNext]_vars

(* POST /blindsign requests while the rotation task runs *)
RotationSignRequests ==
  {<<Auth("alice", "pw"), Some("c1"), NoneOpt>>, <<Auth("alice", "bad"), Some("c1"), NoneOpt>>}

RotationTickDeltas == {1, RotationPeriod}

(* blindsign requests interleaved with the key-rotation task *)
RotationNext ==
  \/ \E d \in RotationTickDeltas : ticks < MaxTicks /\ Tick(d)
       /\ UNCHANGED <<rotationVars, serverVars, notServer>>
  \/ RotationStore /\ UNCHANGED <<now, ticks, serverVars, notServer>>
  \/ \E g \in BOOLEAN : RotationGenerate(g) /\ UNCHANGED <<now, ticks, serverVars, notServer>>
  \/ RotationInstall /\ UNCHANGED <<now, ticks, serverVars, notServer>>
  \/ \E r \in RotationSignRequests : BlindSignSign(r[1], r[2], r[3])
       /\ UNCHANGED <<now, ticks, serverVars, notServer>>
  \/ BlindSignReply /\ UNCHANGED <<now, ticks, serverVars, notServer>>

SpecRotation == ServerInit /\ [][RotationNext]_vars

(* GET /blindjwks while the rotation task runs: the handler reads the key
   under the read lock and answers with its public half *)
BlindJwksGet ==
  /\ SigningKeyReadable
  /\ bjwks' = Some([keys |-> <<[kid |-> BlindKeyIdOf(blind_signing_key),
                                key |-> blind_signing_key]>>,
                    last |-> rot.last, during |-> rot.pc])
  /\ UNCHANGED <<minted, validated, bfetch, refetchVars, cl, got, pr, lateVars>>

RotationTaskSignRequests == {<<Auth("alice", "pw"), Some("c1"), NoneOpt>>}

(* the rotation task with its key generation and its lock, the runtime's
   shutdown, and the two endpoints that read the signing key *)
RotationTaskNext ==
  \/ \E d \in RotationTickDeltas : ticks < MaxTicks /\ Tick(d)
       /\ UNCHANGED <<rotationVars, serverVars, notServer>>
  \/ RotationStore /\ UNCHANGED <<now, ticks, serverVars, notServer>>
  \/ \E g \in BOOLEAN : RotationGenerate(g) /\ UNCHANGED <<now, ticks, serverVars, notServer>>
  \/ RotationInstall /\ UNCHANGED <<now, ticks, serverVars, notServer>>
  \/ RotationShutdown /\ UNCHANGED <<now, ticks, serverVars, notServer>>
  \/ \E r \in RotationTaskSignRequests : BlindSignSign(r[1], r[2], r[3])
       /\ UNCHANGED <<now, ticks, serverVars, notServer>>
  \/ BlindSignReply /\ UNCHANGED <<now, ticks, serverVars, notServer>>
  \/ BlindJwksGet
       /\ UNCHANGED <<now, ticks, rotationVars, serverVars, validatorVars, clientVars,
                      blindVars, clientBlindVars>>

(* a task that is running is scheduled until its next await *)
RotationTaskRuns ==
  \/ \E g \in BOOLEAN : RotationGenerate(g) /\ UNCHANGED <<now, ticks, serverVars, notServer>>
  \/ RotationInstall /\ UNCHANGED <<now, ticks, serverVars, notServer>>

RotationTaskInit == ServerInit /\ audiences = NoneOpt

SpecRotationTask ==
  RotationTaskInit /\ [][RotationTaskNext]_vars /\ WF_vars(RotationTaskRuns)

(* the user table under every sequence of logins and user-administration
   requests *)
UsersNext ==
  \/ \E d \in ServerTickDeltas : Idle /\ ticks < MaxServerTicks /\ Tick(d)
       /\ UNCHANGED <<serverVars, rotationVars, notServer>>
  \/ Respond /\ UNCHANGED <<now, ticks, rotationVars, notServer>>
  \/ \E r \in UsersTokensRequests : Idle /\ GetTokens(r[1], r[2], r[3])
       /\ UNCHANGED <<now, ticks, rotationVars, notServer>>
  \/ \E b \in BearerOpts, u \in {"alice", "bob"} : Idle /\ CreateUser(b, u, "pw")
       /\ UNCHANGED <<now, ticks, rotationVars, notServer>>
  \/ \E b \in BearerOpts, r \in UpdateRequests : Idle /\ UpdateUser(b, r[1], r[2])
       /\ UNCHANGED <<now, ticks, rotationVars, notServer>>
  \/ \E b \in BearerOpts, u \in Usernames : Idle /\ DeleteUser(b, u)
       /\ UNCHANGED <<now, ticks, rotationVars, notServer>>

SpecUsers == ServerInit /\ [][UsersNext]_vars

(* ---- the server is started again on its database ---- *)
(* values of the environment variable ADMIN_PASSWORD: unset, or a password *)
AdminPasswordEnvs == {NoneOpt, Some("pw"), Some("new")}

(* Mutant: the admin's password is set from ADMIN_PASSWORD at every start. *)
SetupSqlite_EnvOverrides(admin_password) ==
  /\ Idle
  /\ users' = IF FindUserByName(users, ADMIN_USERNAME) = {}
                THEN users \cup {NewUser(ADMIN_USERNAME,
                                   IF admin_password.some THEN admin_password.val ELSE "random")}
                ELSE IF admin_password.some
                  THEN {IF u.username = ADMIN_USERNAME
                          THEN [u EXCEPT !.encoded_hash = admin_password.val] ELSE u : u \in users}
                  ELSE users
  /\ sres' = Response("setup_sqlite", "Ok", [NoReq EXCEPT !.password = admin_password], NoOut)
  /\ UNCHANGED <<audiences, refresh_tokens, all_refresh, next_rt>>

(* setup_sqlite: the tables are those of the database file; an admin is
   added, with the password of ADMIN_PASSWORD or a random one, only when
   no user named "admin" is found *)
SetupSqlite(admin_password) ==
  /\ Idle
  /\ users' = IF FindUserByName(users, ADMIN_USERNAME) = {}
                THEN users \cup {NewUser(ADMIN_USERNAME,
                                   IF admin_password.some THEN admin_password.val ELSE "random")}
                ELSE users
  /\ sres' = Response("setup_sqlite", "Ok", [NoReq EXCEPT !.password = admin_password], NoOut)
  /\ UNCHANGED <<audiences, refresh_tokens, all_refresh, next_rt>>

(* user administration with restarts of the server in between *)
RestartNext ==
  \/ UsersNext
  \/ \E p \in AdminPasswordEnvs : SetupSqlite(p)
       /\ UNCHANGED <<now, ticks, rotationVars, notServer>>

RestartInit == ServerInit

SpecRestart == RestartInit /\ [][RestartNext]_vars

(* a database with the admin and two users, no client-id policy *)
DeletedInit ==
  /\ now = Epoch
  /\ ticks = 0
  /\ InitValidator
  /\ InitAux
  /\ InitClient
  /\ InitRotation
  /\ InitBlind
  /\ audiences = NoneOpt
  /\ users = {NewUser(ADMIN_USERNAME, "pw"), NewUser("alice", "pw"), NewUser("bob", "pw")}
  /\ refresh_tokens = {AdminSession(NoneOpt)}
  /\ all_refresh = {AdminSession(NoneOpt)}
  /\ next_rt = 0
  /\ sres = ServerNoCall

(* users log in, refresh and ask for blind signatures while the admin
   deletes users and users rename themselves *)
DeletedNext ==
  \/ Respond /\ UNCHANGED <<now, ticks, rotationVars, notServer>>
  \/ \E u \in {"alice", "bob"} : Idle /\ GetTokensUpTo(u, "pw", NoneOpt, MaxDeletedLogins)
       /\ UNCHANGED <<now, ticks, rotationVars, notServer>>
  \/ \E n \in 0..MaxDeletedLogins : Idle /\ Refresh(<<"rt", n>>, NoneOpt)
       /\ UNCHANGED <<now, ticks, rotationVars, notServer>>
  \/ \E b \in BearerOpts : Idle /\ BlindSign(NoneOpt, NoneOpt, b)
       /\ UNCHANGED <<now, ticks, rotationVars, notServer>>
  \/ \E b \in BearerOpts, u \in {"alice", "bob"} : Idle /\ CreateUser(b, u, "pw")
       /\ UNCHANGED <<now, ticks, rotationVars, notServer>>
  \/ \E b \in BearerOpts, u \in {"alice", "bob"} : Idle /\ UpdateUser(b, Some(u), NoneOpt)
       /\ UNCHANGED <<now, ticks, rotationVars, notServer>>
  \/ \E b \in BearerOpts, u \in Usernames : Idle /\ DeleteUser(b, u)
       /\ UNCHANGED <<now, ticks, rotationVars, notServer>>

SpecDeleted == DeletedInit /\ [][DeletedNext]_vars

(* ------------------------------------------------------------------ *)
(* libcommon: authorize and validate                                    *)
(* ------------------------------------------------------------------ *)
(* ClientId values handed to authorize: any string of length >= 1 *)
AuthorizeClientIds == {"c1", "c2", "c1,c2"}
AuthorizeSubs == {"sub_alice", "sub_bob"}
AuthorizeIssuers == {"iss1", "iss2"}

(* ValidationOptions::default() *)
DefaultValidationOptions == [allowed_issuers |-> NoneOpt, allowed_audiences |-> NoneOpt]

(* TokenBody::new: a refresh token is generated when it is required *)
TokenBodyNew(id, refresh_required) ==
  [id |-> id, refresh |-> IF refresh_required THEN Some(<<"rt", 1>>) ELSE NoneOpt]

(* sk.authorize(sub, cid, iss, admin, r) at the current time *)
AuthorizeCall(sk, sub, cid, iss, admin, r) ==
  /\ minted' = [called |-> TRUE, at |-> now, sk |-> sk, sub |-> sub, cid |-> cid,
                iss |-> iss, admin |-> admin, r |-> r,
                body |-> TokenBodyNew(Authorize(sk, sub, cid, iss, admin, now), r)]
  /\ validated' = NoValidate

(* sk.validate(token.id, default options) at the current time *)
ValidateMinted ==
  /\ minted.called
  /\ validated' = [called |-> TRUE, at |-> now,
                   kind |-> ValidationKeyValidate(minted.sk, minted.body.id,
                                                  DefaultValidationOptions, now)]
  /\ UNCHANGED minted

AuthorizeTickDeltas == {1, JWT_DURATION_MINS * 60 - 1, Leeway}

AuthorizeNext ==
  \/ \E d \in AuthorizeTickDeltas : ticks < MaxAuthorizeTicks /\ Tick(d)
       /\ validated' = NoValidate
       /\ UNCHANGED <<minted, bjwks, bfetch, refetchVars, cl, got, pr, lateVars, validatorVars, clientVars, rotationVars, blindVars,
                      serverVars, clientBlindVars>>
  \/ \E sk \in Keys, sub \in AuthorizeSubs, cid \in AuthorizeClientIds,
        iss \in AuthorizeIssuers, admin \in BOOLEAN, r \in BOOLEAN :
       /\ ~minted.called
       /\ AuthorizeCall(sk, sub, cid, iss, admin, r)
       /\ UNCHANGED <<now, ticks, bjwks, bfetch, refetchVars, cl, got, pr, lateVars, validatorVars, clientVars, rotationVars, blindVars,
                      serverVars, clientBlindVars>>
  \/ ValidateMinted
       /\ UNCHANGED <<now, ticks, bjwks, bfetch, refetchVars, cl, got, pr, lateVars, validatorVars, clientVars, rotationVars, blindVars,
                      serverVars, clientBlindVars>>

AuthorizeInit == ServerInit /\ audiences = NoneOpt

SpecAuthorize == AuthorizeInit /\ [][AuthorizeNext]_vars

BlindInit ==
  /\ now = Epoch
  /\ ticks = 0
  /\ InitValidator
  /\ InitAux
  /\ InitClient
  /\ InitRotation
  /\ InitBlind
  /\ InitServer
  /\ audiences = NoneOpt

BlindNext ==
  \/ \E d \in TickDeltas : ticks < MaxTicks /\ Tick(d) /\ bres' = NoCall
       /\ UNCHANGED <<rotationVars, blind_validation_keys, blind_validation_keys_stale,
                      blind_validation_keys_updated_at, notBlind>>
  \/ \E g \in BOOLEAN : RotateBlindKey(g) /\ bres' = NoCall
       /\ UNCHANGED <<now, ticks, blind_validation_keys, blind_validation_keys_stale,
                      blind_validation_keys_updated_at, notBlind>>
  \/ \E resp \in BlindJwksResponses : RefetchBlindJwks(resp)
       /\ UNCHANGED <<now, ticks, rotationVars, notBlind>>
  \/ \E tok \in AnonymousTokens : ValidateAnonymousToken(tok)
       /\ UNCHANGED <<now, ticks, rotationVars, notBlind>>

SpecBlind == BlindInit /\ [][BlindNext]_vars

(* the anonymous tokens the issuer has signed *)
IssuedAnonymousTokens == {tok \in AnonymousTokens : tok.key_id = BlindKeyIdOf(tok.signer)}

(* the validator refetching the blind JWKS of an issuer that rotates its key *)
BlindRefetchNext ==
  \/ \E d \in TickDeltas : ticks < MaxTicks /\ Tick(d) /\ bres' = NoCall
       /\ UNCHANGED <<rotationVars, blind_validation_keys, blind_validation_keys_stale,
                      blind_validation_keys_updated_at, notBlind>>
  \/ \E g \in BOOLEAN : RotateBlindKey(g) /\ bres' = NoCall
       /\ UNCHANGED <<now, ticks, blind_validation_keys, blind_validation_keys_stale,
                      blind_validation_keys_updated_at, notBlind>>
  \/ \E resp \in BlindJwksResponses : RefetchBlindJwksObserved(resp)
       /\ UNCHANGED <<now, ticks, rotationVars, validatorVars, clientVars, serverVars,
                      clientBlindVars, minted, validated, bjwks, refetchVars, cl, got, pr, lateVars>>
  \/ \E tok \in IssuedAnonymousTokens : ValidateAnonymousToken(tok)
       /\ UNCHANGED <<now, ticks, rotationVars, notBlind>>

SpecBlindRefetch == BlindInit /\ [][BlindRefetchNext]_vars

(* ---- an issuer whose blind key changes at any time ---- *)
(* the key the issuer's /blindjwks shows: a key of a rotation, or the new
   key of an issuer that was started again *)
GenKeys == 1..MaxGenKeys

GenJwksResponses ==
  {[fetched |-> FALSE, keys |-> {}, unparsable |-> FALSE]}
    \cup {[fetched |-> TRUE, keys |-> {k}, unparsable |-> FALSE] : k \in GenKeys}

GenAnonymousTokens == {[key_id |-> BlindKeyIdOf(k), signer |-> k] : k \in GenKeys}

(* refetch_blind_jwks, with a record of the key maps it installed *)
RefetchBlindJwksGen(resp) ==
  /\ (BlindJwksFetched(resp) /\ blind_validation_keys # BlindKeyMapOf(resp.keys))
       => Len(gen) < MaxChanges
  /\ RefetchBlindJwks(resp)
  /\ gen' = IF blind_validation_keys' # blind_validation_keys
              THEN Append(gen, [keys |-> resp.keys, at |-> now])
              ELSE gen

notBlindGen ==
  <<validatorVars, clientVars, serverVars, clientBlindVars, auxEarly, rem, sb>>

BlindGenNext ==
  \/ \E d \in TickDeltas : ticks < MaxTicks /\ Tick(d) /\ bres' = NoCall
       /\ UNCHANGED <<rotationVars, blind_validation_keys, blind_validation_keys_stale,
                      blind_validation_keys_updated_at, notBlind>>
  \/ \E resp \in GenJwksResponses : RefetchBlindJwksGen(resp)
       /\ UNCHANGED <<now, ticks, rotationVars, notBlindGen>>
  \/ \E tok \in GenAnonymousTokens : ValidateAnonymousToken(tok)
       /\ UNCHANGED <<now, ticks, rotationVars, notBlind>>

BlindGenInit == BlindInit

SpecBlindGen == BlindGenInit /\ [][BlindGenNext]_vars

(* ---- refetch_blind_jwks, lock by lock ---- *)
(* lines 281-301: the JWKS is fetched; under the write lock on the current
   map the fetched map is compared with it and, when it differs, the old
   map is cloned and the new one assigned; the lock is dropped *)
BlindRefetchSwap(resp) ==
  /\ sb.pc = "idle"
  /\ bres' = NoCall
  /\ IF ~BlindJwksFetched(resp) \/ blind_validation_keys = BlindKeyMapOf(resp.keys)
       THEN UNCHANGED <<blind_validation_keys, sb>>
       ELSE /\ blind_validation_keys' = BlindKeyMapOf(resp.keys)
            /\ sb' = [pc |-> "swapped", old |-> blind_validation_keys]
  /\ UNCHANGED <<blind_validation_keys_stale, blind_validation_keys_updated_at>>

(* lines 303-305: the write lock on the stale map is taken and the clone
   assigned *)
BlindRefetchStale ==
  /\ sb.pc = "swapped"
  /\ blind_validation_keys_stale' = sb.old
  /\ sb' = [sb EXCEPT !.pc = "staled"]
  /\ bres' = NoCall
  /\ UNCHANGED <<blind_validation_keys, blind_validation_keys_updated_at>>

(* lines 307-309: the write lock on updated_at is taken and the time
   stored *)
BlindRefetchStamp ==
  /\ sb.pc = "staled"
  /\ blind_validation_keys_updated_at' = now
  /\ sb' = [sb EXCEPT !.pc = "idle"]
  /\ bres' = NoCall
  /\ UNCHANGED <<blind_validation_keys, blind_validation_keys_stale>>

notBlindSteps ==
  <<validatorVars, clientVars, serverVars, clientBlindVars, auxEarly, rem, gen>>

(* the validator refetching while requests are validated: a validation may
   run between any two lock acquisitions of the refetch *)
BlindStepsNext ==
  \/ \E d \in TickDeltas : sb.pc = "idle" /\ ticks < MaxTicks /\ Tick(d) /\ bres' = NoCall
       /\ UNCHANGED <<rotationVars, blind_validation_keys, blind_validation_keys_stale,
                      blind_validation_keys_updated_at, notBlind>>
  \/ \E g \in BOOLEAN : sb.pc = "idle" /\ RotateBlindKey(g) /\ bres' = NoCall
       /\ UNCHANGED <<now, ticks, blind_validation_keys, blind_validation_keys_stale,
                      blind_validation_keys_updated_at, notBlind>>
  \/ \E resp \in BlindJwksResponses : BlindRefetchSwap(resp)
       /\ UNCHANGED <<now, ticks, rotationVars, notBlindSteps>>
  \/ BlindRefetchStale /\ UNCHANGED <<now, ticks, rotationVars, notBlindSteps>>
  \/ BlindRefetchStamp /\ UNCHANGED <<now, ticks, rotationVars, notBlindSteps>>
  \/ \E tok \in IssuedAnonymousTokens : ValidateAnonymousToken(tok)
       /\ UNCHANGED <<now, ticks, rotationVars, notBlind>>

BlindStepsInit == BlindInit

SpecBlindSteps == BlindStepsInit /\ [][BlindStepsNext]_vars

ClientInit ==
  /\ now = Epoch
  /\ ticks = 0
  /\ InitValidator
  /\ InitAux
  /\ InitClient
  /\ InitRotation
  /\ InitBlind
  /\ InitServer
  /\ audiences = NoneOpt

(* one call at a time, each run to its return *)
ClientSeqNext ==
  \/ \E t \in Tasks : AllIdle /\ StartLogin(t) /\ UNCHANGED notClient
  \/ \E t \in Tasks : AllIdle /\ StartRefresh(t) /\ UNCHANGED notClient
  \/ \E t \in Tasks : ClientStep(t) /\ UNCHANGED notClient

SpecClientSeq == ClientInit /\ [][ClientSeqNext]_vars

(* calls of several tasks interleave at their await points, may be
   cancelled there, and token() may run in between *)
ClientNext ==
  \/ \E t \in Tasks : StartLogin(t) /\ UNCHANGED notClient
  \/ \E t \in Tasks : StartRefresh(t) /\ UNCHANGED notClient
  \/ \E t \in Tasks : ClientStep(t) /\ UNCHANGED notClient
  \/ \E t \in Tasks : Cancel(t) /\ UNCHANGED notClient
  \/ TokenCall /\ UNCHANGED notClient

SpecClient == ClientInit /\ [][ClientNext]_vars

(* a login() has returned Ok and none is running *)
LoggedIn == outcome[1] \in {"login_Ok", "refresh_Ok", "refresh_running"} \union RefreshErrorOutcomes

notClientButGot ==
  <<ticks, validatorVars, rotationVars, blindVars, serverVars, clientBlindVars,
    minted, validated, bjwks, bfetch, refetchVars, cl, pr, lateVars>>

(* the steps of a call after its POST was answered *)
ClientStepAfterPost(t) ==
  \/ StoreRefresh(t)
  \/ StoreId(t)
  \/ UvkRead(t)
  \/ \E resp \in ClientJwksResponses : UvkFetch(t, resp)
  \/ UvkStore(t)
  \/ VerifyRead(t)
  \/ VerifyCheck(t)

(* one login, then refresh() calls of several tasks that interleave at
   their await points; got records the answer each POST received *)
ClientRefreshNext ==
  \/ AllIdle /\ issued = 0 /\ StartLogin(1) /\ UNCHANGED notClient
  \/ \E t \in Tasks : LoggedIn /\ StartRefresh(t) /\ UNCHANGED notClient
  \/ \E t \in Tasks, resp \in TokenResponses({TRUE}) :
       /\ LoginPostUpTo(t, resp, MaxRefreshIssued)
       /\ got' = [got EXCEPT ![t] = resp]
       /\ UNCHANGED notClientButGot
  \/ \E t \in Tasks, resp \in TokenResponses(BOOLEAN) :
       /\ RefreshPostUpTo(t, resp, MaxRefreshIssued)
       /\ got' = [got EXCEPT ![t] = resp]
       /\ UNCHANGED notClientButGot
  \/ \E t \in Tasks : ClientStepAfterPost(t) /\ UNCHANGED notClient

SpecClientRefresh == ClientInit /\ [][ClientRefreshNext]_vars

ValidatorInit ==
  /\ now = Epoch
  /\ ticks = 0
  /\ InitValidator
  /\ InitAux
  /\ InitClient
  /\ InitRotation
  /\ InitBlind
  /\ InitServer
  /\ audiences = NoneOpt

ValidatorNext ==
  \/ \E i \in Issuers, resp \in JwksResponses : RefetchJwks(i, resp) /\ UNCHANGED notValidator
  \/ \E t \in PresentedTokens : Validate(t) /\ UNCHANGED notValidator

SpecValidator == ValidatorInit /\ [][ValidatorNext]_vars

(* answers of the /jwks endpoints in a refetch_all_jwks call *)
RefetchAllResponses ==
  {r \in JwksResponses : r.keys \in {{}, {1}, {1, 2}} /\ (r.unparsable => r.keys = {1})}

(* tokens validated while keys are refetched: signed by the key they name *)
RefetchAllTokens ==
  {t \in PresentedTokens : t.iat = Epoch /\ t.kid = KeyIdOf(t.signer) /\ t.aud = {"c1"}}

notRefetchAll ==
  <<ticks, clientVars, rotationVars, blindVars, serverVars, clientBlindVars,
    minted, validated, bjwks, bfetch, cl, got, pr, lateVars>>

(* validate() running while refetch_all_jwks refetches every issuer *)
RefetchAllNext ==
  \/ \E resps \in [Issuers -> RefetchAllResponses] :
       RefetchAllJwksStart(resps) /\ UNCHANGED notRefetchAll
  \/ \E i \in Issuers : RefetchJwksBuild(i) /\ UNCHANGED notRefetchAll
  \/ \E i \in Issuers : RefetchJwksSwap(i) /\ UNCHANGED notRefetchAll
  \/ \E t \in RefetchAllTokens : ValidateObserved(t) /\ UNCHANGED notRefetchAll

SpecRefetchAll == ValidatorInit /\ [][RefetchAllNext]_vars

(* ------------------------------------------------------------------ *)
(* Properties of the validator                                          *)
(* ------------------------------------------------------------------ *)
TimeAccepts(t) == now >= t.nbf - Leeway /\ now <= t.exp + Leeway

(* issuer i holds, under the kid of t's header, the key that signed t, and
   i's options accept t's claims *)
IssuerAccepts(i, t) ==
  /\ t.kid \in DOMAIN validation_keys[i]
  /\ validation_keys[i][t.kid] = t.signer
  /\ TimeAccepts(t)
  /\ t.iss = ValidationConfig(i).token_issuer
  /\ t.aud \cap ValidationConfig(i).client_ids # {}

InstalledKeys(i) == {validation_keys[i][kid] : kid \in DOMAIN validation_keys[i]}

(* C1: validate(t) returns the claims of exactly the issuers that hold the
   signer's key under the kid of t's header and whose options accept t; it
   fails with ValidationFailed when there is no such issuer; a token whose
   signer is installed only under another kid than the header's is never
   accepted by that issuer. *)
C1_ValidateByKid ==
  vres.kind # "NoCall" /\ vres.token.kid # NoKid =>
    LET t == vres.token
        good == {i \in Issuers : IssuerAccepts(i, t)}
    IN /\ vres.kind \in {"Ok", "ValidationFailed"}
       /\ vres.accepted = good
       /\ (vres.kind = "ValidationFailed") <=> (good = {})
       /\ \A i \in Issuers :
            (t.signer \in InstalledKeys(i) /\ KeyIdOf(t.signer) # t.kid) => i \notin vres.accepted

(* a token signed by an installed key but naming another installed key's kid,
   otherwise acceptable to the issuer, has been rejected *)
C1_Witness ==
  /\ vres.kind = "ValidationFailed"
  /\ \E i \in Issuers :
       /\ vres.token.signer \in InstalledKeys(i)
       /\ vres.token.kid \in DOMAIN validation_keys[i]
       /\ KeyIdOf(vres.token.signer) # vres.token.kid
       /\ TimeAccepts(vres.token)
       /\ vres.token.iss = ValidationConfig(i).token_issuer
       /\ vres.token.aud \cap ValidationConfig(i).client_ids # {}

(* ------------------------------------------------------------------ *)
(* Client: failed and cancelled calls                                   *)
(* ------------------------------------------------------------------ *)
ErrorKinds == {"_Err_Http", "_Err_NoIdToken", "_Err_NoKeyIdInIdToken", "_Err_NoJwkMatched",
               "_Err_FailedToParseJwk", "_Err_NoValidationKey", "_Err_InvalidIdToken",
               "_Err_NoRefreshToken"}
LoginErrors == {"login" \o e : e \in ErrorKinds}
RefreshErrors == {"refresh" \o e : e \in ErrorKinds}

(* the call of task t returns in this step *)
Returns(t) == pc[t] # "idle" /\ pc'[t] = "idle"

(* C2: when login() returns an error, whichever step failed, the id_token,
   refresh_token and validation_key slots hold exactly the values they held
   when the call began. *)
C2_LoginFailureKeepsSlots ==
  [][\A t \in Tasks :
       (Returns(t) /\ outcome'[t] \in LoginErrors) =>
         /\ id_token' = pre[t].id_token
         /\ refresh_token' = pre[t].refresh_token
         /\ validation_key' = pre[t].validation_key]_vars

(* C3: when refresh() returns an error, whichever step failed, the id_token
   slot still holds the id token that was stored when the call began. *)
C3_RefreshFailureKeepsIdToken ==
  [][\A t \in Tasks :
       ((Returns(t) \/ (pc[t] = "idle" /\ outcome[t] # outcome'[t]))
          /\ outcome'[t] \in RefreshErrors) =>
         id_token' = pre'[t].id_token]_vars

(* C4: whatever calls are in flight, suspended or cancelled, the id_token
   slot never holds, and token() never returns, an id token that has not
   passed verification against the fetched validation key. *)
C4_NoUnverifiedIdToken ==
  /\ id_token.some => id_token.val.id \in verified
  /\ observed.some => observed.val.id \in verified

(* ------------------------------------------------------------------ *)
(* Anonymous tokens signed with the previous RSA key                    *)
(* ------------------------------------------------------------------ *)
(* the last call validated a token made with the key the server's current
   key replaced, and the validator, which held that key, has since fetched
   the current one *)
PreviousKeyTokenValidated ==
  /\ bres.kind # "NoCall"
  /\ blind_signing_key > 1
  /\ bres.token = [key_id |-> BlindKeyIdOf(blind_signing_key - 1),
                   signer |-> blind_signing_key - 1]
  /\ blind_validation_keys = BlindKeyMapOf({blind_signing_key})
  /\ blind_validation_keys_stale = BlindKeyMapOf({blind_signing_key - 1})

(* C5 as stated: a token signed with the previous RSA key is accepted while
   less than STALE_BLIND_JWKS_TIMEOUT_SEC have passed since the issuer's
   rotation, and rejected once more than that have passed. *)
C5_StaleWindowFromRotation ==
  PreviousKeyTokenValidated =>
    /\ now - blind_key_since < STALE_BLIND_JWKS_TIMEOUT_SEC => bres.kind = "Ok"
    /\ now - blind_key_since > STALE_BLIND_JWKS_TIMEOUT_SEC => bres.kind = "BlindValidationFailed"

(* C5 amended: a correctly signed token whose key is no longer in the
   validator's current map is accepted exactly when its key is in the stale
   map and less than STALE_BLIND_JWKS_TIMEOUT_SEC have passed since the
   refetch at which the validator saw its map change; in particular a token
   of the previous key is accepted up to, and rejected from, 3600 s after
   that refetch, however long before it the issuer rotated. *)
C5_StaleWindowFromRefetch ==
  /\ (/\ bres.kind # "NoCall"
      /\ bres.token.key_id = BlindKeyIdOf(bres.token.signer)
      /\ bres.token.key_id \notin DOMAIN blind_validation_keys) =>
       (bres.kind = "Ok" <=>
          /\ bres.token.key_id \in DOMAIN blind_validation_keys_stale
          /\ now - blind_validation_keys_updated_at < STALE_BLIND_JWKS_TIMEOUT_SEC)
  /\ PreviousKeyTokenValidated =>
       (bres.kind = "Ok" <=>
          now - blind_validation_keys_updated_at < STALE_BLIND_JWKS_TIMEOUT_SEC)

(* a token of the previous key accepted more than an hour after the rotation,
   the validator having fetched the new key late *)
C5_Witness ==
  /\ PreviousKeyTokenValidated
  /\ bres.kind = "Ok"
  /\ now - blind_key_since > STALE_BLIND_JWKS_TIMEOUT_SEC
  /\ now - blind_validation_keys_updated_at = STALE_BLIND_JWKS_TIMEOUT_SEC - 1

(* ------------------------------------------------------------------ *)
(* Server: refresh tokens                                               *)
(* ------------------------------------------------------------------ *)
(* the last request was a refresh *)
RefreshCalled == sres.op = "refresh" /\ sres.rt.some

(* the rows ever recorded for the refresh token the request presented *)
RowsPresented == {row \in all_refresh : row.refresh_token = sres.rt.val}

(* the request names the client id the token was issued for; without an
   audiences policy the server reads no client id from the request *)
SameClient(row, client) == audiences.some => client = Some(row.client_id)

(* the client id of the request gets past the audiences policy *)
PassesPolicy(client) == audiences.some => (client.some /\ client.val \in audiences.val)

UserExisted(sub) == \E u \in sres.users_before : u.subscriber_id = sub

(* C6: a refresh with a refresh token handed out at login, made with the
   client id of that login before the token's expires_at while its user is in
   the user table, succeeds with an id token of the same sub and no refresh
   token, and leaves the token's row in the table, so the token stays usable
   until it expires. *)
C6_RefreshValidUntilExpiry ==
  RefreshCalled =>
    \A row \in RowsPresented :
      (SameClient(row, sres.client) /\ sres.at < row.expires /\ UserExisted(row.subscriber_id)) =>
        /\ sres.kind = "Ok"
        /\ sres.id.some
        /\ sres.id.val.sub = row.subscriber_id
        /\ sres.refresh = NoneOpt
        /\ row \in refresh_tokens

(* a refresh that succeeds in the last second before the token expires *)
C6_Witness ==
  /\ RefreshCalled
  /\ sres.kind = "Ok"
  /\ \E row \in RowsPresented :
       /\ row.subscriber_id = SubscriberIdOf("alice")
       /\ sres.at = row.expires - 1
       /\ row \in refresh_tokens

(* C7: a refresh made at or after the expires_at of the presented refresh
   token mints nothing, whether or not the row is still in the table; once
   the client id has passed the audiences policy the lookup finds no row and
   the call fails with UnauthorizedOrExpiredRefreshToken. *)
C7_NoMintAtOrAfterExpiry ==
  RefreshCalled =>
    \A row \in RowsPresented :
      sres.at >= row.expires =>
        /\ sres.kind # "Ok"
        /\ sres.id = NoneOpt
        /\ PassesPolicy(sres.client) => sres.kind = "UnauthorizedOrExpiredRefreshToken"

(* a refresh in the very second the token expires: the row has not been
   pruned, and the token is refused *)
C7_Witness ==
  /\ RefreshCalled
  /\ sres.kind = "UnauthorizedOrExpiredRefreshToken"
  /\ \E row \in RowsPresented :
       /\ sres.at = row.expires
       /\ SameClient(row, sres.client)
       /\ row \in refresh_tokens

(* C8 as stated: a refresh that names a client id other than the one
   recorded for the refresh token mints nothing and, when that client id
   passes the audiences policy, fails with UnauthorizedOrExpiredRefreshToken. *)
C8_OnlyWithRecordedClient ==
  RefreshCalled =>
    \A row \in RowsPresented :
      (sres.client.some /\ sres.client.val # row.client_id) =>
        /\ sres.kind # "Ok"
        /\ sres.id = NoneOpt
        /\ PassesPolicy(sres.client) => sres.kind = "UnauthorizedOrExpiredRefreshToken"

(* C8 amended: when an audiences policy is configured, a refresh that names a
   client id other than the one recorded for the refresh token mints nothing
   and, when that client id is in the policy, fails with
   UnauthorizedOrExpiredRefreshToken; when no policy is configured every
   refresh token is recorded under the default client id and the client id of
   a request is not read. *)
C8_OnlyWithRecordedClientUnderPolicy ==
  /\ (audiences.some /\ RefreshCalled) =>
       \A row \in RowsPresented :
         (sres.client.some /\ sres.client.val # row.client_id) =>
           /\ sres.kind # "Ok"
           /\ sres.id = NoneOpt
           /\ sres.client.val \in audiences.val =>
                sres.kind = "UnauthorizedOrExpiredRefreshToken"
  /\ ~audiences.some => \A row \in all_refresh : row.client_id = DEFAUTL_CLIENT_ID

(* a live refresh token of an existing user, presented with another client
   id of the policy, is refused *)
C8_Witness ==
  /\ audiences.some
  /\ RefreshCalled
  /\ sres.kind = "UnauthorizedOrExpiredRefreshToken"
  /\ sres.client.some
  /\ sres.client.val \in audiences.val
  /\ \E row \in RowsPresented :
       /\ sres.client.val # row.client_id
       /\ sres.at < row.expires
       /\ UserExisted(row.subscriber_id)
       /\ row \in refresh_tokens

(* ------------------------------------------------------------------ *)
(* Server: who may get a blind signature, who may administer users      *)
(* ------------------------------------------------------------------ *)
(* an id token signed by the server, in its validity period at time at, of
   the server's issuer and, under a policy, for one of its audiences *)
TokenValidAt(t, at) ==
  /\ t.signer = ServerKey
  /\ at >= t.nbf - Leeway
  /\ at <= t.exp + Leeway
  /\ t.iss = ServerIssuer
  /\ audiences.some => t.aud \cap audiences.val # {}

InlineAuthenticated ==
  /\ sres.auth.some
  /\ \E u \in sres.users_before :
       u.username = sres.auth.val.username /\ u.encoded_hash = sres.auth.val.password
  /\ audiences.some => (sres.client.some /\ sres.client.val \in audiences.val)

BearerAuthenticated ==
  /\ sres.bearer.some
  /\ TokenValidAt(sres.bearer.val, sres.at)
  /\ UserExisted(sres.bearer.val.sub)

(* C9: blindsign answers with a signature only when the inline username and
   password belong to an existing user (and, under an audiences policy, the
   client id is in it) or the bearer id token validates and its sub is an
   existing user; every other request gets an error and no signature. *)
C9_BlindSignOnlyAuthenticated ==
  sres.op = "blind_sign" =>
    /\ sres.kind = "Ok" => (InlineAuthenticated \/ BearerAuthenticated)
    /\ sres.sig.some => sres.kind = "Ok"
    /\ ~(InlineAuthenticated \/ BearerAuthenticated) => (sres.kind # "Ok" /\ sres.sig = NoneOpt)

(* a bearer token that validates but whose sub is no user: no signature *)
C9_Witness ==
  /\ sres.op = "blind_sign"
  /\ ~sres.auth.some
  /\ sres.bearer.some
  /\ TokenValidAt(sres.bearer.val, sres.at)
  /\ ~UserExisted(sres.bearer.val.sub)
  /\ sres.kind = "UnauthorizedUser"
  /\ sres.sig = NoneOpt

AdminCalled == sres.op \in {"create_user", "delete_user", "list_users"}

(* the caller holds a valid id token with iad = true whose sub is an
   existing user with is_admin = true *)
AdminCaller ==
  /\ sres.bearer.some
  /\ TokenValidAt(sres.bearer.val, sres.at)
  /\ sres.bearer.val.iad
  /\ \E u \in sres.users_before : u.subscriber_id = sres.bearer.val.sub /\ u.is_admin

(* C10: create_user, delete_user and list_users change the user table or
   return a user list only for a caller whose bearer id token validates, has
   iad = true and names an existing admin user; for every other caller they
   fail with MissingToken, InvalidToken or UnauthorizedUser, the user table
   is as before and no list is returned. *)
C10_AdminOnly ==
  AdminCalled =>
    /\ (users # sres.users_before \/ sres.list.some \/ sres.kind = "Ok") => AdminCaller
    /\ ~AdminCaller =>
         /\ sres.kind \in {"MissingToken", "InvalidToken", "UnauthorizedUser"}
         /\ users = sres.users_before
         /\ sres.list = NoneOpt

(* a user who is no admin asks, with a valid id token, to delete a user *)
C10_Witness ==
  /\ sres.op = "delete_user"
  /\ sres.bearer.some
  /\ TokenValidAt(sres.bearer.val, sres.at)
  /\ ~sres.bearer.val.iad
  /\ UserExisted(sres.bearer.val.sub)
  /\ sres.kind = "UnauthorizedUser"
  /\ users = sres.users_before

(* ------------------------------------------------------------------ *)
(* Server: user administration by the admin                             *)
(* ------------------------------------------------------------------ *)
TargetExisted == \E u \in sres.users_before : u.username = sres.target.val

(* C11: with the id token of an admin login, create_user for a name that is
   not in the user table succeeds and adds the user; a delete_user of an
   existing user other than the admin succeeds and removes it, and a
   delete_user of a name that is not in the table fails with NoSuchUser. *)
C11_AdminCreatesAndDeletes ==
  (AdminCalled /\ AdminCaller) =>
    /\ (sres.op = "create_user" /\ ~TargetExisted) =>
         /\ sres.kind = "Ok"
         /\ \E u \in users : u.username = sres.target.val
    /\ (sres.op = "delete_user" /\ TargetExisted /\ sres.target.val # ADMIN_USERNAME) =>
         /\ sres.kind = "Ok"
         /\ ~\E u \in users : u.username = sres.target.val
    /\ (sres.op = "delete_user" /\ ~TargetExisted) =>
         /\ sres.kind = "NoSuchUser"
         /\ users = sres.users_before

(* the part of C11 about delete_user alone *)
C11_AdminDeletes ==
  (AdminCalled /\ AdminCaller) =>
    /\ (sres.op = "delete_user" /\ TargetExisted /\ sres.target.val # ADMIN_USERNAME) =>
         /\ sres.kind = "Ok"
         /\ ~\E u \in users : u.username = sres.target.val
    /\ (sres.op = "delete_user" /\ ~TargetExisted) =>
         /\ sres.kind = "NoSuchUser"
         /\ users = sres.users_before

(* C12: delete_user called by an admin on the caller's own record, or on
   the record whose username is "admin", answers DeleteProhibitedUser and
   leaves the user table as it was. *)
C12_DeleteProhibited ==
  (sres.op = "delete_user" /\ AdminCaller /\ TargetExisted) =>
    \A caller \in sres.users_before :
      (caller.subscriber_id = sres.bearer.val.sub
         /\ (sres.target.val = caller.username \/ sres.target.val = ADMIN_USERNAME)) =>
        /\ sres.kind = "DeleteProhibitedUser"
        /\ users = sres.users_before

(* the admin asks to delete "admin" *)
C12_Witness ==
  /\ sres.op = "delete_user"
  /\ AdminCaller
  /\ sres.target.val = ADMIN_USERNAME
  /\ sres.kind = "DeleteProhibitedUser"
  /\ \E u \in users : u.username = ADMIN_USERNAME

(* the record of the user named "admin" *)
AdminRecord(rows) == {u \in rows : u.username = ADMIN_USERNAME}

(* the caller's token validates and its subject is the user named "admin" *)
CallerIsAdminUser ==
  /\ sres.bearer.some
  /\ TokenValidAt(sres.bearer.val, sres.at)
  /\ \E u \in sres.users_before :
       u.subscriber_id = sres.bearer.val.sub /\ u.username = ADMIN_USERNAME

(* C13: update_user called by the user named "admin" with a new username
   answers ChangeAdminNameProhibited and leaves the admin record as it was,
   username and password hash, also when the request carries a new
   password. *)
C13_AdminNameFixed ==
  (sres.op = "update_user" /\ CallerIsAdminUser /\ sres.target.some) =>
    /\ sres.kind = "ChangeAdminNameProhibited"
    /\ AdminRecord(users) = AdminRecord(sres.users_before)
    /\ users = sres.users_before

(* the admin asks for a new username and a new password at once *)
C13_Witness ==
  /\ sres.op = "update_user"
  /\ CallerIsAdminUser
  /\ sres.target.some
  /\ sres.password.some
  /\ sres.kind = "ChangeAdminNameProhibited"
  /\ \E u \in users : u.username = ADMIN_USERNAME /\ u.encoded_hash = "pw"

(* C14: in every state reached through logins, create_user, update_user and
   delete_user, a stored user has is_admin = true exactly when its username
   is "admin". *)
C14_AdminIffNamedAdmin ==
  \A u \in users : u.is_admin <=> (u.username = ADMIN_USERNAME)

(* a user has renamed itself and changed its password, the admin is stored
   next to it *)
C14_Witness ==
  /\ \E u \in users : u.subscriber_id = SubscriberIdOf("alice") /\ u.username = "bob"
                      /\ u.encoded_hash = "new"
  /\ \E u \in users : u.is_admin

(* ------------------------------------------------------------------ *)
(* Server: blindsign next to the key rotation                           *)
(* ------------------------------------------------------------------ *)
(* C16: every successful blindsign response carries expires_at = the time
   at which the key that produced its signature was installed, plus the
   rotation period. *)
C16_ExpiresAtOfSigningKey ==
  (bsign.pc = "done" /\ bsign.kind = "Ok") =>
    bsign.expires_at.val = bsign.key_since.val + RotationPeriod

(* ------------------------------------------------------------------ *)
(* Server: the audiences policy at token issuance                       *)
(* ------------------------------------------------------------------ *)
MintCalled == sres.op \in {"get_tokens", "refresh"}

(* C15: under an audiences policy, login and refresh mint an id token only
   for a request whose client id is in audiences, the aud claim of the
   minted token is exactly that client id, and a request with a missing or
   unknown client id mints nothing. *)
C15_MintOnlyForAllowedClient ==
  (audiences.some /\ MintCalled) =>
    /\ sres.id.some =>
         /\ sres.client.some
         /\ sres.client.val \in audiences.val
         /\ sres.id.val.aud = {sres.client.val}
    /\ ~(sres.client.some /\ sres.client.val \in audiences.val) =>
         /\ sres.kind # "Ok"
         /\ sres.id = NoneOpt
         /\ sres.refresh = NoneOpt
         /\ all_refresh = {row \in all_refresh : row.client_id \in audiences.val}

(* under a policy, a login and a refresh for the second allowed client id *)
C15_Witness ==
  /\ audiences.some
  /\ sres.op = "refresh"
  /\ sres.kind = "Ok"
  /\ sres.client = Some("c2")
  /\ sres.id.val.aud = {"c2"}

(* ------------------------------------------------------------------ *)
(* Client: blind-signature methods                                      *)
(* ------------------------------------------------------------------ *)
BlindSignCalled == cres.op = "blind_sign"
UpdateBlindKeyCalled == cres.op = "update_blind_key"
UpdateBlindKeyErrors ==
  {"TokenHttpClientErrorResponse", "NoJwkInBlindJwks", "NoKeyIdInBlindJwks",
   "FailedToParseJwk", "InvalidJwk"}

(* C17: when request_blind_signature_with_id_token fails, at the unblinding
   or at the local verification of the unblinded token, the anonymous_token
   and blind_expires_at slots hold what they held before the call. *)
C17_SlotsKeptOnFailure ==
  (BlindSignCalled /\ cres.kind # "Ok") =>
    /\ anonymous_token = cres.pre.anonymous_token
    /\ blind_expires_at = cres.pre.blind_expires_at

(* the part that holds: a response that does not unblind with the stored
   key (the server rotated after the key was fetched) leaves both slots *)
C17_UnblindFailureKeepsSlots ==
  (BlindSignCalled /\ cres.kind = "FailedToUnblindSignedResponse") =>
    /\ anonymous_token = cres.pre.anonymous_token
    /\ blind_expires_at = cres.pre.blind_expires_at

(* C18: update_blind_validation_key_if_stale returns true, with the fetched
   key stored, exactly when no key was stored or the stored key differed
   from the fetched one; it returns false with the slot unchanged otherwise;
   and on every error the slot is unchanged. *)
C18_ReplacedExactlyWhenStale ==
  UpdateBlindKeyCalled =>
    /\ cres.kind = "Ok_true" =>
         /\ cres.pre.blind_validation_key # Some(blind_signing_key)
         /\ blind_validation_key = Some(blind_signing_key)
    /\ cres.kind = "Ok_false" =>
         /\ cres.pre.blind_validation_key = Some(blind_signing_key)
         /\ blind_validation_key = cres.pre.blind_validation_key
    /\ cres.kind \in UpdateBlindKeyErrors =>
         blind_validation_key = cres.pre.blind_validation_key
    /\ cres.kind \in {"Ok_true", "Ok_false"} \cup UpdateBlindKeyErrors
    /\ anonymous_token = cres.pre.anonymous_token
    /\ blind_expires_at = cres.pre.blind_expires_at

(* after a rotation of the server's key, the stored key is replaced *)
C18_Witness ==
  /\ UpdateBlindKeyCalled
  /\ cres.kind = "Ok_true"
  /\ cres.pre.blind_validation_key.some
  /\ blind_validation_key.val # cres.pre.blind_validation_key.val

(* C19: while no login has completed, refresh() fails with NoRefreshToken
   and token() and request_blind_signature_with_id_token() fail with
   NoIdToken, none of them sending a request; with an id token and no blind
   validation key, request_blind_signature_with_id_token() fails with
   NoBlindValidationKey without sending a request. *)
C19_GuardsBeforeLogin ==
  /\ verified = {} =>
       /\ \A t \in Tasks : pc[t] # "refresh_post"
       /\ \A t \in Tasks :
            outcome[t] \in {"refresh_running"} \cup RefreshErrors =>
              outcome[t] = "refresh_Err_NoRefreshToken"
       /\ cres.op = "token" => cres.kind = "NoIdToken"
       /\ BlindSignCalled => (cres.kind = "NoIdToken" /\ cres.sent = 0)
  /\ (BlindSignCalled /\ cres.pre_id_token.some /\ ~cres.pre.blind_validation_key.some) =>
       (cres.kind = "NoBlindValidationKey" /\ cres.sent = 0)

(* the part that holds: with empty slots every guard answers as described *)
C19_GuardsOnEmptySlots ==
  /\ \A t \in Tasks :
       (pre[t].refresh_token = NoneOpt /\ outcome[t] \in {"refresh_running"} \cup RefreshErrors)
         => outcome[t] = "refresh_Err_NoRefreshToken"
  /\ (cres.op \in {"token", "blind_sign"} /\ ~cres.pre_id_token.some) =>
       (cres.kind = "NoIdToken" /\ cres.sent = 0)
  /\ (BlindSignCalled /\ cres.pre_id_token.some /\ ~cres.pre.blind_validation_key.some) =>
       (cres.kind = "NoBlindValidationKey" /\ cres.sent = 0)

(* ------------------------------------------------------------------ *)
(* libcommon: the id token authorize returns                            *)
(* ------------------------------------------------------------------ *)
MintedClaims ==
  /\ minted.body.id.iat = minted.at
  /\ minted.body.id.exp = minted.at + JWT_DURATION_MINS * 60
  /\ minted.body.id.nbf = minted.at - NBF_BACKDATE_MINS * 60
  /\ minted.body.id.iss = minted.iss
  /\ minted.body.id.sub = minted.sub
  /\ minted.body.id.iad = minted.admin
  /\ minted.body.refresh.some <=> minted.r
  /\ (validated.called /\ validated.at <= minted.body.id.exp) => validated.kind = "ok"

(* C21: the id token authorize(sub, cid, iss, admin, r) returns carries
   iat = now, exp = now + 30 min, nbf = now - 10 min, the given iss and sub,
   iad = admin and an aud that holds exactly cid; it validates under the
   signer's own key with default options at any time up to exp; and a
   refresh token comes with it exactly when r is true. *)
C21_AuthorizedTokenClaims ==
  minted.called => (MintedClaims /\ minted.body.id.aud = {minted.cid})

(* the part that holds: everything but the audience of a client id that
   contains a comma *)
C21_AuthorizedTokenButAud ==
  minted.called =>
    /\ MintedClaims
    /\ SplitComma(minted.cid) = {minted.cid} => minted.body.id.aud = {minted.cid}

(* ------------------------------------------------------------------ *)
(* Server: pruning of the refresh token table                           *)
(* ------------------------------------------------------------------ *)
(* the responses of refresh that are given after prune_and_find has run *)
PrunedRefresh(r) ==
  /\ r.op = "refresh"
  /\ r.kind \in {"UnauthorizedOrExpiredRefreshToken", "TokenCreationFailed", "Ok"}

(* C22: prune_expired removes exactly the refresh-token rows whose
   expires_at is less than or equal to the current time and leaves every
   other row untouched. *)
C22_PruneRemovesExpired ==
  [][PrunedRefresh(sres') =>
       refresh_tokens' = {r \in refresh_tokens : r.expires > now}]_vars

(* what the statement does: the rows that expired before this second go *)
C22_PruneRemovesStrictlyOlder ==
  [][PrunedRefresh(sres') =>
       refresh_tokens' = {r \in refresh_tokens : r.expires >= now}]_vars

(* ------------------------------------------------------------------ *)
(* Server: the key-rotation task                                        *)
(* ------------------------------------------------------------------ *)
(* the responses of the two endpoints carry the key of the slot *)
ServedByCurrentKey ==
  /\ (bsign # bsign' /\ bsign'.pc = "signed") => bsign'.sig.val.signer = blind_signing_key
  /\ (bjwks # bjwks') => bjwks'.val.keys[1].key = blind_signing_key

(* C23: when the RSA key generation of a rotation fails, the signing-key
   slot keeps the prior key, blindsign and blindjwks go on serving with that
   key, and the loop goes to its next sleep of one rotation period instead
   of ending. *)
C23_KeygenFailureKeepsKey ==
  [][/\ (rot.pc = "stored" /\ rot'.pc \in {"sleep", "cancelled"}) =>
          /\ rot'.last = "keygen_failed"
          /\ blind_signing_key' = blind_signing_key
          /\ SigningKeyReadable'
          /\ ~rot.shutdown => (rot'.pc = "sleep" /\ rot'.until = now + RotationPeriod)
     /\ ServedByCurrentKey]_vars

(* after a failed generation both endpoints have answered with key 1, and
   the task sleeps *)
C23_Witness ==
  /\ rot.pc = "sleep"
  /\ rot.last = "keygen_failed"
  /\ blind_signing_key = 1
  /\ bjwks.some /\ bjwks.val.last = "keygen_failed" /\ bjwks.val.keys[1].key = 1
  /\ bsign.pc = "done" /\ bsign.kind = "Ok" /\ bsign.sig.val.signer = 1
  /\ rotated_at > Epoch
  /\ bsign.expires_at.val = rotated_at + RotationPeriod

(* C24: the task is dropped at its sleep when the runtime shuts down; once
   dropped it takes no further step, so no key is generated or installed
   and rotated_at is not stored again; and a shutdown always ends the
   task. *)
C24_CancelledTaskStops ==
  /\ [][/\ rot.pc = "cancelled" =>
             (rot' = rot /\ blind_signing_key' = blind_signing_key
                /\ rotated_at' = rotated_at)
        /\ (rot.pc = "sleep" /\ ~rot.shutdown /\ rot'.shutdown) =>
             (rot'.pc = "cancelled" /\ blind_signing_key' = blind_signing_key)]_vars
  /\ (rot.shutdown ~> rot.pc = "cancelled")

(* the task was dropped in its first sleep; the period is over and the
   first key is still served *)
C24_Witness ==
  /\ rot.pc = "cancelled"
  /\ rot.last = "none"
  /\ now >= rot.until
  /\ blind_signing_key = 1
  /\ bjwks.some /\ bjwks.val.during = "cancelled"

(* C29: while the rotation task generates a key it holds no lock on the
   signing key, so blindsign and blindjwks can read the key; the write lock
   is held only from the end of the generation to the swap. *)
C29_KeygenOutsideLock ==
  /\ [](rot.pc = "stored" => SigningKeyReadable)
  /\ [](rot.wlock <=> rot.pc = "locked")
  /\ [][(rot.wlock /\ rot' # rot /\ ~rot'.wlock) =>
          blind_signing_key' # blind_signing_key]_vars

(* blindjwks answered and a blindsign was replied to while a key was being
   generated *)
C29_Witness ==
  /\ rot.pc = "stored"
  /\ bjwks.some /\ bjwks.val.during = "stored"
  /\ bsign.pc = "done" /\ bsign.kind = "Ok"
  /\ bsign.expires_at.val = rotated_at + RotationPeriod
  /\ rotated_at > Epoch

(* ------------------------------------------------------------------ *)
(* Validator: refetch of the blind JWKS                                 *)
(* ------------------------------------------------------------------ *)
BlindSlotsUnchanged ==
  UNCHANGED <<blind_validation_keys, blind_validation_keys_stale,
              blind_validation_keys_updated_at>>

(* C25: a refetch whose fetched key set equals the current map leaves
   current, stale and updated_at as they were; one whose fetched set differs
   makes stale the old current map, current the fetched set and updated_at
   the time of the refetch.  Hence no step that leaves the current map alone
   alters the stale map or restarts the stale window. *)
C25_RefetchRotatesOnChange ==
  [][/\ (bfetch' # bfetch /\ BlindJwksFetched(bfetch'.val.resp)) =>
          IF BlindKeyMapOf(bfetch'.val.resp.keys) = blind_validation_keys
            THEN BlindSlotsUnchanged /\ ~bfetch'.val.updated
            ELSE /\ blind_validation_keys_stale' = blind_validation_keys
                 /\ blind_validation_keys' = BlindKeyMapOf(bfetch'.val.resp.keys)
                 /\ blind_validation_keys_updated_at' = now
                 /\ bfetch'.val.updated
     /\ blind_validation_keys' = blind_validation_keys => BlindSlotsUnchanged]_vars

(* after a rotation was taken over, a later refetch found the same key: the
   stale map still holds key #1 and the window, not restarted, has run out *)
C25_Witness ==
  /\ bfetch.some
  /\ BlindJwksFetched(bfetch.val.resp)
  /\ ~bfetch.val.updated
  /\ blind_validation_keys = BlindKeyMapOf({2})
  /\ blind_validation_keys_stale = BlindKeyMapOf({1})
  /\ now - blind_validation_keys_updated_at >= STALE_BLIND_JWKS_TIMEOUT_SEC

(* C26 as stated: the current map holds exactly the keys of the most recent
   answer of the blind JWKS endpoint. *)
C26_CurrentIsLastFetch ==
  (bfetch.some /\ bfetch.val.resp.fetched) =>
    blind_validation_keys = BlindKeyMapOf(bfetch.val.resp.keys)

(* C26 amended: the current map holds, under their key ids, exactly the keys
   of the most recent answer that was not empty and whose entries all
   parsed; it is empty before the first such answer.  An answer that is
   empty or has an unparsable entry leaves the map as it was. *)
C26_CurrentIsLastAcceptedFetch ==
  /\ ~bfetch.some => blind_validation_keys = BlindKeyMapOf({})
  /\ bfetch.some =>
       /\ blind_validation_keys = BlindKeyMapOf(bfetch.val.good)
       /\ BlindJwksFetched(bfetch.val.resp) => bfetch.val.good = bfetch.val.resp.keys
  /\ \A kid \in DOMAIN blind_validation_keys :
       BlindKeyIdOf(blind_validation_keys[kid]) = kid

(* the issuer has rotated to key #2, the last answer carried it next to an
   unparsable entry, and the map still holds key #1 of the answer before *)
C26_Witness ==
  /\ bfetch.some
  /\ bfetch.val.resp.unparsable
  /\ bfetch.val.resp.keys = {2}
  /\ bfetch.val.good = {1}
  /\ blind_validation_keys = BlindKeyMapOf({1})

(* ------------------------------------------------------------------ *)
(* Validator: refetch of the JWKS                                       *)
(* ------------------------------------------------------------------ *)
(* the map of issuer i before the refetch_all_jwks call, and the map the
   call builds from the answer of the issuer *)
OldMap(i) == rall.pre[i]
NewMap(i) == KeyMapOf(rall.resps[i].keys)

(* C27: whatever the refetch of an issuer is doing, the issuer's shared map
   is the whole old map or the whole new one, and so is the map a validate()
   running meanwhile has read: the keys parsed so far are in the local map
   only. *)
C27_ValidateSeesWholeMap ==
  /\ ~rall.called => \A i \in Issuers : validation_keys[i] = KeyMapOf({})
  /\ rall.called =>
       \A i \in Issuers :
         /\ validation_keys[i] \in {OldMap(i), NewMap(i)}
         /\ vseen.some => vseen.val.maps[i] \in {OldMap(i), NewMap(i)}
         /\ rj[i].pc \in {"building", "built"} => validation_keys[i] = OldMap(i)

(* validate() ran while the refetch of an issuer had parsed one of two keys:
   it read the old map, which holds key #1 alone or no key *)
C27_Witness ==
  /\ vseen.some
  /\ vres.kind # "NoCall"
  /\ \E i \in Issuers :
       /\ vseen.val.rj[i].pc = "building"
       /\ vseen.val.rj[i].resp.keys = {1, 2}
       /\ vseen.val.rj[i].built = {2}
       /\ vseen.val.maps[i] = OldMap(i)
       /\ OldMap(i) # NewMap(i)
       /\ OldMap(i) # KeyMapOf({2})

(* the refetch_all_jwks call has returned *)
RefetchAllDone == rall.called /\ \A i \in Issuers : rj[i].pc = "done"

(* C28: in a refetch_all_jwks call an issuer whose answer is missing, empty
   or has an unparsable key keeps its map as it was, at every moment of the
   call; when the call has returned, every other issuer has the map of its
   freshly fetched keys. *)
C28_FailureIsPerIssuer ==
  rall.called =>
    \A i \in Issuers :
      /\ ~JwksAccepted(rall.resps[i]) => validation_keys[i] = OldMap(i)
      /\ (RefetchAllDone /\ JwksAccepted(rall.resps[i])) => validation_keys[i] = NewMap(i)

(* a call has returned in which one issuer answered with an empty list and
   kept its two keys, and the other issuer's map was replaced *)
C28_Witness ==
  /\ RefetchAllDone
  /\ \E i, j \in Issuers :
       /\ rall.resps[i].fetched /\ rall.resps[i].keys = {} /\ ~rall.resps[i].unparsable
       /\ validation_keys[i] = KeyMapOf({1, 2})
       /\ JwksAccepted(rall.resps[j])
       /\ validation_keys[j] = NewMap(j)
       /\ NewMap(j) # OldMap(j)

(* ------------------------------------------------------------------ *)
(* Client: lock guards and suspension points                            *)
(* ------------------------------------------------------------------ *)
(* the request call is suspended on the POST to /blindsign *)
RequestAwaitsHttp == cl.req = "post"

(* C30: no guard on a slot of the client is held by a call that is
   suspended on an HTTP request or has gone on to other awaits outside the
   critical section the guard was taken for. *)
C30_NoGuardAcrossAwait ==
  (RequestAwaitsHttp \/ cl.req = "verify") => GuardsOf("request") = {}

(* what the code does: the read guard on blind_validation_key taken at line
   34 is held from the blinding to the return of the call, and as long as
   it is held the key cannot be replaced *)
C30_ReadGuardHeldToReturn ==
  /\ cl.req \in {"post", "verify"} <=>
       GuardsOf("request") = {Guard("request", "blind_validation_key", "read")}
  /\ cl.req = "idle" => GuardsOf("request") = {}

(* the key is never replaced while the request call is in flight *)
C30_WriterWaitsForRequest ==
  [][cl.req \in {"post", "verify"} => blind_validation_key' = blind_validation_key]_vars

(* the task that updates the key waits for the write guard while the
   request of the other task is still on the network *)
C30_WriterBlockedDuringPost ==
  /\ RequestAwaitsHttp
  /\ cl.upd = "write"
  /\ cl.key = Some(2)
  /\ blind_validation_key = Some(1)

(* ------------------------------------------------------------------ *)
(* Client: refresh()                                                    *)
(* ------------------------------------------------------------------ *)
(* C34: refresh() writes the refresh_token slot only when the response
   carries a refresh token; after a successful refresh() whose response
   carried none the slot holds what it held when the call began, and
   otherwise it holds the refresh token of the response. *)
C34_RefreshTokenKeptWithoutNewOne ==
  [][\A t \in Tasks :
       /\ (pc[t] = "store_refresh" /\ pc'[t] # pc[t] /\ loc[t].op = "refresh"
             /\ ~loc[t].res.val.refresh.some) => refresh_token' = refresh_token
       /\ (Returns(t) /\ outcome'[t] = "refresh_Ok") =>
            refresh_token' = IF loc[t].res.val.refresh.some
                               THEN loc[t].res.val.refresh
                               ELSE pre[t].refresh_token]_vars

(* a refresh() has succeeded on a response without a refresh token: the
   slot still holds the refresh token of the login *)
C34_Witness ==
  \E t \in Tasks :
    /\ outcome[t] = "refresh_Ok"
    /\ AllIdle
    /\ id_token.some /\ id_token.val.id.serial = 2 /\ ~id_token.val.refresh.some
    /\ refresh_token = Some(<<"rt", 1>>)
    /\ pre[t].refresh_token = refresh_token

(* every task's last call was a refresh() that returned Ok *)
BothRefreshed == AllIdle /\ \A t \in Tasks : outcome[t] = "refresh_Ok"

(* C31: refresh() calls that run concurrently can all succeed; the id_token
   slot is written only by the step that stores the whole TokenBody one
   call received, so when all have returned it holds the complete answer
   to one of them, the one that wrote last, never nothing and never parts
   of two answers. *)
C31_LastWriterWins ==
  /\ [][id_token' # id_token =>
          \E t \in Tasks : /\ pc[t] = "store_id" /\ pc'[t] = "uvk_read"
                           /\ got[t].some
                           /\ id_token' = got[t]]_vars
  /\ [](BothRefreshed => (id_token.some /\ id_token \in {got[t] : t \in Tasks}))

(* two refresh() calls ran concurrently and both returned Ok; they received
   different tokens and the slot holds the one issued first, whose call
   wrote last *)
C31_Witness ==
  /\ BothRefreshed
  /\ \A t \in Tasks : got[t].some /\ got[t].val.id.serial > 1
  /\ \E t, u \in Tasks : got[t] # got[u]
  /\ id_token.val.id.serial = 2

(* ------------------------------------------------------------------ *)
(* Server: prune_expired next to add                                    *)
(* ------------------------------------------------------------------ *)
(* the times at which row r was inserted *)
InsertedAt(r) == {e[2] : e \in {x \in pr.ins : x[1] = r}}

(* C32: the row a login adds is in the table and found by (value,
   client_id) when add returns, and no delete of a prune_expired, of the
   same or of another request, removes a row that was inserted at or after
   the moment that prune read the clock. *)
C32_PruneKeepsNewRows ==
  [][/\ (pr.add.pc = "made" /\ pr'.add.pc = "added") =>
          FindRefreshToken(refresh_tokens', pr.add.row.refresh_token,
                           pr.add.row.client_id, now) = {pr.add.row}
     /\ (pr.prune.pc = "snap" /\ pr'.prune.pc = "idle") =>
          \A r \in refresh_tokens \ refresh_tokens' :
            \A t \in InsertedAt(r) : t < pr.prune.current
     /\ (pr.add.pc = "pruning" /\ pr'.add.pc = "idle") =>
          /\ pr.add.row \in refresh_tokens'
          /\ \A r \in refresh_tokens \ refresh_tokens' :
               \A t \in InsertedAt(r) : t < pr.add.current]_vars

(* a prune that read the clock before the login inserted its row has
   deleted the expired row of the admin and left the new row, which is
   found *)
C32_Witness ==
  /\ pr.prune.pc = "idle"
  /\ pr.add.pc = "added"
  /\ pr.prune.deleted # {}
  /\ pr.add.row \in refresh_tokens
  /\ \E t \in InsertedAt(pr.add.row) : t > pr.prune.current
  /\ FindRefreshToken(refresh_tokens, pr.add.row.refresh_token,
                      pr.add.row.client_id, now) = {pr.add.row}

(* ------------------------------------------------------------------ *)
(* Client: blind_remaining_seconds_until_expiration                     *)
(* ------------------------------------------------------------------ *)
(* C33: with an expiry stored, blind_remaining_seconds_until_expiration
   returns Ok(expires_at - current) as a signed number, negative when the
   expiry is in the past, and the unsigned subtraction neither wraps nor
   aborts. *)
C33_SignedDifference ==
  (rem.called /\ rem.kind # "InvalidExpireTimeBlindValidationKey") =>
    /\ rem.kind = "Ok"
    /\ rem.val = rem.expires_at - rem.current
    /\ ~rem.wrapped

(* what the code does: a call that returns Ok returns the signed
   difference; it returns without a wrap exactly when the expiry is not in
   the past, and with the expiry in the past it panics in a build with
   overflow checks and wraps in a build without *)
C33_ExactWhenItReturns ==
  (rem.called /\ rem.kind # "InvalidExpireTimeBlindValidationKey") =>
    /\ rem.kind = "Ok" => rem.val = rem.expires_at - rem.current
    /\ (rem.kind = "Ok" /\ ~rem.wrapped) <=> rem.expires_at >= rem.current
    /\ rem.kind = "panic" <=> (rem.expires_at < rem.current /\ rem.build = "debug")

(* the call was made after the stored expiry had passed and panicked *)
C33_PanicAfterExpiry ==
  rem.called /\ rem.kind = "panic" /\ rem.expires_at < rem.current

(* ------------------------------------------------------------------ *)
(* Client: the fair lock on blind_validation_key                        *)
(* ------------------------------------------------------------------ *)
(* the request is at read().await of verify_anonymous_token, holding its
   read guard of line 34, with the writer of the update queued *)
SecondReadBehindWriter ==
  /\ cl.req = "verify"
  /\ cl.upd = "queued"
  /\ Guard("request", "blind_validation_key", "read") \in cl.held

(* C35: request_blind_signature_with_id_token never asks for a second
   read lock on blind_validation_key while it holds a first read guard
   and a writer is queued on the slot. *)
C35_NoSecondReadBehindWriter == ~SecondReadBehindWriter

(* what the code does: once the request asks for its second read behind
   the queued writer, neither call takes another step *)
C35_BothCallsStuck ==
  [][SecondReadBehindWriter => (SecondReadBehindWriter' /\ cl' = cl /\ cres' = cres)]_vars

(* a request that took its read guard and then met a queued writer never
   returns: the request that has started does not always come back to
   idle *)
C35_RequestReturns == (cl.req # "idle") ~> (cl.req = "idle")

(* ------------------------------------------------------------------ *)
(* Validator: refetch_blind_jwks next to validate_anonymous_token       *)
(* ------------------------------------------------------------------ *)
(* the keys of a key map *)
KeysOf(map) == {map[kid] : kid \in DOMAIN map}

(* a validation has just answered on a token signed by a key of the map
   that the running refetch replaced *)
ValidatedOldKey ==
  /\ sb.pc # "idle"
  /\ bres # NoCall
  /\ bres.token.signer \in KeysOf(sb.old)

(* C36: while refetch_blind_jwks replaces the keys after a key change, a
   validate_anonymous_token on a token signed by the key that was current
   just before is not rejected. *)
C36_OldKeyAcceptedDuringRefetch == ValidatedOldKey => bres.kind = "Ok"

(* what the code does: the refetch over, a token of the replaced key is
   accepted as long as the stale window of that change lasts *)
C36_OldKeyAcceptedAfterRefetch ==
  (/\ sb.pc = "idle"
   /\ bres # NoCall
   /\ bres.token.signer \in KeysOf(sb.old)
   /\ CanTryStale(blind_validation_keys_updated_at, now)) => bres.kind = "Ok"

(* the old key has left the current map, the stale map does not hold it
   yet, and a token it signed was rejected *)
C36_RejectedBeforeStaleWritten ==
  /\ ValidatedOldKey /\ sb.pc = "swapped" /\ bres.kind # "Ok"
  /\ bres.token.key_id \notin DOMAIN blind_validation_keys_stale

(* the old key is in the stale map, updated_at still holds the start of
   the previous window, which has elapsed, and a token the old key signed
   was rejected *)
C36_RejectedBeforeStampWritten ==
  /\ ValidatedOldKey /\ sb.pc = "staled" /\ bres.kind # "Ok"
  /\ bres.token.key_id \in DOMAIN blind_validation_keys_stale
  /\ ~CanTryStale(blind_validation_keys_updated_at, now)

(* ------------------------------------------------------------------ *)
(* Server: rotated_at and the key in the slot                           *)
(* ------------------------------------------------------------------ *)
(* C37: rotated_at is the time at which the key now in the slot was
   installed. *)
C37_RotatedAtIsInstallTime == rotated_at = blind_key_since

(* what the code does: rotated_at moves in the step of line 118, which
   leaves the key alone, and the step that replaces the key leaves
   rotated_at alone *)
C37_RotatedAtMovesBeforeKey ==
  [][rotated_at' # rotated_at => blind_signing_key' = blind_signing_key]_vars

(* a key generation failed: the task sleeps again, the key is the one of
   start-up, and rotated_at has moved a period on *)
C37_FailedKeygenMovedRotatedAt ==
  /\ rot.pc = "sleep" /\ rot.last = "keygen_failed"
  /\ blind_key_since = Epoch
  /\ rotated_at = Epoch + RotationPeriod

(* ------------------------------------------------------------------ *)
(* Server: a deleted user                                               *)
(* ------------------------------------------------------------------ *)
(* subscriber ids that refresh rows and id tokens name and no user has:
   update_user never changes a subscriber id, so their users were deleted *)
DeletedSubscribers ==
  {r.subscriber_id : r \in all_refresh} \ {u.subscriber_id : u \in users}

(* C38: nothing is issued for a deleted user: a login answers with a token
   of a user that exists, a refresh with a refresh token that was issued
   to a deleted user fails, and a blindsign with the id token of a deleted
   user fails, whether or not a user of the same name exists again. *)
C38_NothingIssuedForDeletedUser ==
  /\ (sres.op \in {"get_tokens", "refresh"} /\ sres.kind = "Ok") =>
       sres.id.val.sub \notin DeletedSubscribers
  /\ (sres.op = "get_tokens" /\ FindUserByName(users, sres.auth.val.username) = {}) =>
       sres.kind # "Ok"
  /\ (sres.op = "refresh" /\ sres.rt.some) =>
       \A row \in all_refresh :
         (row.refresh_token = sres.rt.val /\ row.subscriber_id \in DeletedSubscribers)
           => sres.kind # "Ok"
  /\ (sres.op = "blind_sign" /\ ~sres.auth.some /\ sres.bearer.some) =>
       (sres.bearer.val.sub \in DeletedSubscribers => sres.kind # "Ok")

(* alice logged in and was deleted, a new alice exists, and a refresh with
   the live refresh token of the first alice has just failed *)
C38_Witness ==
  /\ sres.op = "refresh" /\ sres.kind = "TokenCreationFailed"
  /\ \E row \in refresh_tokens :
       /\ row.refresh_token = sres.rt.val
       /\ row.subscriber_id \in DeletedSubscribers
       /\ row.expires > now
  /\ \E u \in users : u.username = "alice" /\ u.subscriber_id # SubscriberIdOf("alice")

(* ------------------------------------------------------------------ *)
(* Server: the admin record                                             *)
(* ------------------------------------------------------------------ *)
(* C39: through logins, create_user, update_user, delete_user and restarts
   the user table holds exactly one record named "admin", and a start of
   the server on a database that holds it leaves the whole table, the
   admin's password hash included, as it was, whatever ADMIN_PASSWORD
   says. *)
C39_OneAdminKeptByRestart ==
  /\ Cardinality(FindUserByName(users, ADMIN_USERNAME)) = 1
  /\ sres.op = "setup_sqlite" => users = sres.users_before

(* the admin has changed its password, and the server was started again
   with another ADMIN_PASSWORD: the hash is the one the admin chose *)
C39_Witness ==
  /\ sres.op = "setup_sqlite"
  /\ sres.password = Some("pw")
  /\ \E u \in users : u.username = ADMIN_USERNAME /\ u.encoded_hash = "new"

(* ------------------------------------------------------------------ *)
(* Validator: one previous generation of blind keys                     *)
(* ------------------------------------------------------------------ *)
(* the keys of the n-th map the validator installed *)
GenerationKeys(n) == IF n \in 1..Len(gen) THEN gen[n].keys ELSE {}

(* C40: the current map is the last map seen and the stale map the one
   before it, and no older one; updated_at is the time of the last change
   seen; a token signed by a key that is in neither of the two is rejected,
   however short a time ago its map was replaced; the stale map, once it
   holds keys, is never emptied, and the clock leaves the three slots as
   they are. *)
C40_OnePreviousGeneration ==
  /\ [](Len(gen) > 0 =>
          /\ KeysOf(blind_validation_keys) = GenerationKeys(Len(gen))
          /\ KeysOf(blind_validation_keys_stale) = GenerationKeys(Len(gen) - 1)
          /\ blind_validation_keys_updated_at = gen[Len(gen)].at)
  /\ []((bres # NoCall
          /\ bres.token.signer \notin GenerationKeys(Len(gen)) \cup GenerationKeys(Len(gen) - 1))
         => bres.kind # "Ok")
  /\ [][/\ blind_validation_keys_stale # << >> => blind_validation_keys_stale' # << >>
        /\ now' # now => UNCHANGED <<blind_validation_keys, blind_validation_keys_stale,
                                     blind_validation_keys_updated_at>>]_vars

(* three maps were installed one after the other, the second less than the
   stale window ago, and a token signed by the key of the first has just
   been rejected *)
C40_Witness ==
  /\ Len(gen) = 3
  /\ now - gen[2].at < STALE_BLIND_JWKS_TIMEOUT_SEC
  /\ gen[1].keys \cap (gen[2].keys \cup gen[3].keys) = {}
  /\ bres # NoCall
  /\ bres.token.signer \in gen[1].keys
  /\ bres.kind = "BlindValidationFailed"
====
